---- MODULE Spec2Model ----
(***************************************************************************)
(* Gait-analysis backend (src/backend/gait-analysis): the request          *)
(* validator, the GaitProcessor with its shared sampling_rate and history, *)
(* the Flask endpoints of app.py and the GaitProblemDetector.              *)
(*                                                                         *)
(* Numbers.  Sensor values and timestamps (ms) are integers.  Metrics and  *)
(* baseline statistics are fixed-point hundredths (the code rounds every   *)
(* metric to 2 decimals at the boundary), so 0.65 is 65 and 1.05 is 105.   *)
(* Sampling rates are fixed-point milli-Hertz, so 50 Hz is 50000.          *)
(***************************************************************************)
EXTENDS Integers, Sequences, FiniteSets, TLC

VARIABLES
    problem_detector,  \* app.py global: NoDetector, or the loaded detector
    sampling_rate,     \* GaitProcessor.sampling_rate (mHz)
    history,           \* GaitProcessor.history
    frame,             \* per worker thread: the running analyze call's frame
    completed,         \* ghost: results of analyze calls, in completion order
    calls,             \* ghost: analyze calls begun since the initial state
    request,           \* the last HTTP request handled
    response           \* the response sent for it

vars == <<problem_detector, sampling_rate, history, frame, completed, calls,
          request, response>>

-----------------------------------------------------------------------------
(* JSON values as the handlers see them after request.get_json().          *)

JNull == [k |-> "null"]
JNum(n) == [k |-> "num", num |-> n]
JStr(s) == [k |-> "str", str |-> s]
JList(s) == [k |-> "list", items |-> s]
JDict(f) == [k |-> "dict", fields |-> f]

\* Python truthiness of a JSON value (bool(v)).
Truthy(v) ==
    CASE v.k = "null" -> FALSE
      [] v.k = "num"  -> v.num # 0
      [] v.k = "str"  -> v.str # ""
      [] v.k = "list" -> Len(v.items) > 0
      [] v.k = "dict" -> DOMAIN v.fields # {}

\* len(v) is defined (no TypeError) for str, list and dict only.
HasLen(v) == v.k \in {"str", "list", "dict"}

\* dict.get(key, default)
DictGet(d, key, default) ==
    IF key \in DOMAIN d.fields THEN d.fields[key] ELSE default

RECURSIVE Flatten(_)
Flatten(ss) ==
    IF ss = <<>> THEN <<>> ELSE Head(ss) \o Flatten(Tail(ss))

Min2(a, b) == IF a < b THEN a ELSE b
Max2(a, b) == IF a > b THEN a ELSE b

-----------------------------------------------------------------------------
(* data_validator.py                                                       *)

required_fields == <<"x", "y", "z">>

Err(sensor_type, what, index, field) ==
    [sensor |-> sensor_type, what |-> what, index |-> index, field |-> field]

\* The loop body of _validate_sensor_array for reading number i (0-based).
ReadingErrors(reading, sensor_type, i) ==
    IF reading.k # "dict"
    THEN << Err(sensor_type, "must be an object", i, "") >>
    ELSE Flatten([j \in 1..Len(required_fields) |->
            LET field == required_fields[j] IN
            IF field \notin DOMAIN reading.fields
            THEN << Err(sensor_type, "missing field", i, field) >>
            ELSE IF reading.fields[field].k # "num"
            THEN << Err(sensor_type, "must be a number", i, field) >>
            ELSE <<>>])

_validate_sensor_array(sensor_data, sensor_type) ==
    IF sensor_data.k # "list"
    THEN << Err(sensor_type, "must be an array", -1, "") >>
    ELSE IF Len(sensor_data.items) = 0
    THEN << Err(sensor_type, "array is empty", -1, "") >>
    ELSE Flatten([i \in 1..Min2(5, Len(sensor_data.items)) |->
            ReadingErrors(sensor_data.items[i], sensor_type, i - 1)])

validate_sensor_data(data) ==
    IF ~Truthy(data)
    THEN [valid |-> FALSE,
          errors |-> << Err("", "No data provided", -1, "") >>]
    ELSE
      LET accelerometer == DictGet(data, "accelerometer", JNull)
          gyroscope     == DictGet(data, "gyroscope", JNull)
          e0 == IF ~Truthy(accelerometer) /\ ~Truthy(gyroscope)
                THEN << Err("", "At least one sensor type is required", -1, "") >>
                ELSE <<>>
          e1 == IF Truthy(accelerometer)
                THEN _validate_sensor_array(accelerometer, "accelerometer")
                ELSE <<>>
          e2 == IF Truthy(gyroscope)
                THEN _validate_sensor_array(gyroscope, "gyroscope")
                ELSE <<>>
          errors == e0 \o e1 \o e2
      IN [valid |-> Len(errors) = 0, errors |-> errors]

-----------------------------------------------------------------------------
(* Arithmetic on the fixed-point stand-ins for Python floats.              *)

Abs(a) == IF a < 0 THEN -a ELSE a

\* a / b rounded to the nearest integer (b > 0), as round() does at the
\* response boundary.
RoundDiv(a, b) ==
    IF a >= 0 THEN (2 * a + b) \div (2 * b) ELSE -((2 * (-a) + b) \div (2 * b))

RECURSIVE SqrtIn(_, _, _)
SqrtIn(n, lo, hi) ==
    IF lo >= hi THEN lo
    ELSE LET mid == (lo + hi + 1) \div 2 IN
         IF mid * mid <= n THEN SqrtIn(n, mid, hi) ELSE SqrtIn(n, lo, mid - 1)

\* floor(sqrt(n)), 0 <= n < 2^31 (46340 = floor(sqrt(2^31 - 1)))
ISqrt(n) == SqrtIn(n, 0, Min2(n, 46340))

RECURSIVE SumSeq(_)
SumSeq(s) ==
    IF Len(s) = 0 THEN 0
    ELSE IF Len(s) = 1 THEN s[1]
    ELSE LET half == Len(s) \div 2
         IN SumSeq(SubSeq(s, 1, half)) + SumSeq(SubSeq(s, half + 1, Len(s)))

SqSeq(s) == [i \in 1..Len(s) |-> s[i] * s[i]]

\* np.diff
Diff(s) == [i \in 1..(Len(s) - 1) |-> s[i + 1] - s[i]]

\* np.std(s) * scale, s non-empty: sqrt(n*sum(s^2) - sum(s)^2) / n
StdScaled(s, scale) ==
    LET n == Len(s)
        d == n * SumSeq(SqSeq(s)) - SumSeq(s) * SumSeq(s)
    IN ISqrt(scale * scale * d) \div n

-----------------------------------------------------------------------------
(* gait_processor.py: the helper methods.  sensor_data is the Python list  *)
(* of sample dicts (a sequence of JDict values).                           *)

DEFAULT_SAMPLING_RATE == 50
HISTORY_LIMIT == 100

\* d.get(key, default) of a sample dict, as a number
NumGet(d, key, default) ==
    IF key \in DOMAIN d.fields THEN d.fields[key].num ELSE default

\* _convert_to_arrays: the per-axis arrays; 'time' defaults to the index
_convert_to_arrays(sensor_data) ==
    [x    |-> [i \in 1..Len(sensor_data) |-> NumGet(sensor_data[i], "x", 0)],
     y    |-> [i \in 1..Len(sensor_data) |-> NumGet(sensor_data[i], "y", 0)],
     z    |-> [i \in 1..Len(sensor_data) |-> NumGet(sensor_data[i], "z", 0)],
     time |-> [i \in 1..Len(sensor_data) |->
                 NumGet(sensor_data[i], "timestamp", i - 1)]]

\* _calculate_magnitude, times 100
_calculate_magnitude(data) ==
    [i \in 1..Len(data.x) |->
        ISqrt(10000 * (data.x[i] * data.x[i] + data.y[i] * data.y[i]
                       + data.z[i] * data.z[i]))]

\* _calculate_duration, in milliseconds (the code divides by 1000.0)
_calculate_duration(sensor_data) ==
    IF Len(sensor_data) < 2 THEN 0
    ELSE NumGet(sensor_data[Len(sensor_data)], "timestamp", 0)
         - NumGet(sensor_data[1], "timestamp", 0)

\* Faulty variant: the intervals are taken over every sample
CalculateSamplingRateAllSamples(sensor_data) ==
    IF Len(sensor_data) < 10 THEN 0
    ELSE LET timestamps == [i \in 1..Len(sensor_data) |->
                               NumGet(sensor_data[i], "timestamp", 0)]
             intervals == Diff(timestamps)
         IN IF Len(intervals) = 0 \/ SumSeq(intervals) = 0 THEN 0
            ELSE (1000 * 1000 * Len(intervals)) \div SumSeq(intervals)

\* _calculate_sampling_rate, in mHz: 1000.0 / mean(diff(first 10 timestamps))
_calculate_sampling_rate(sensor_data) ==
    IF Len(sensor_data) < 10 THEN 0
    ELSE LET timestamps == [i \in 1..Min2(10, Len(sensor_data)) |->
                               NumGet(sensor_data[i], "timestamp", 0)]
             intervals == Diff(timestamps)
         IN IF Len(intervals) = 0 \/ SumSeq(intervals) = 0 THEN 0
            ELSE (1000 * 1000 * Len(intervals)) \div SumSeq(intervals)

\* _assess_data_quality
\* Faulty variant: a grade is withheld only when both streams are short
AssessDataQualityBothShort(accel, gyro) ==
    IF Len(accel) < 50 /\ Len(gyro) < 50 THEN "poor"
    ELSE IF Len(accel) < 100 /\ Len(gyro) < 100 THEN "fair"
    ELSE IF Len(accel) < 200 /\ Len(gyro) < 200 THEN "good"
    ELSE "excellent"

_assess_data_quality(accel, gyro) ==
    IF Len(accel) < 50 \/ Len(gyro) < 50 THEN "poor"
    ELSE IF Len(accel) < 100 \/ Len(gyro) < 100 THEN "fair"
    ELSE IF Len(accel) < 200 \/ Len(gyro) < 200 THEN "good"
    ELSE "excellent"

\* Faulty variant: no early return for fewer than 2 steps
EstimateStrideLengthAnySteps(accel_data, steps) ==
    IF Len(accel_data.y) = 0 THEN 0
    ELSE Min2(50 + (StdScaled(accel_data.y, 100) * 3) \div 10, 200)

\* _estimate_stride_length, times 100
_estimate_stride_length(accel_data, steps) ==
    IF Len(steps) < 2 THEN 0
    ELSE IF Len(accel_data.y) = 0 THEN 0
    ELSE Min2(50 + (StdScaled(accel_data.y, 100) * 3) \div 10, 200)

\* cadence (analyze, line 65), times 100: step_count / duration * 60
Cadence(step_count, duration_ms) ==
    IF duration_ms > 0 THEN RoundDiv(step_count * 60 * 1000 * 100, duration_ms)
    ELSE 0

\* _calculate_velocity, times 100
_calculate_velocity(stride_length, cadence) ==
    RoundDiv(stride_length * cadence, 60 * 100)

\* elements 0, 2, 4, ... (s[::2]) and 1, 3, 5, ... (s[1::2])
EvenIdx(s) == [i \in 1..((Len(s) + 1) \div 2) |-> s[2 * i - 1]]
OddIdx(s) == [i \in 1..(Len(s) \div 2) |-> s[2 * i]]

\* Faulty variant: the neutral score only below 3 steps
AnalyzeSymmetryFromThreeSteps(steps) ==
    IF Len(steps) < 3 THEN 50
    ELSE LET step_intervals == Diff(steps)
             even_steps == EvenIdx(step_intervals)
             odd_steps == OddIdx(step_intervals)
             min_len == Min2(Len(even_steps), Len(odd_steps))
         IN IF Len(step_intervals) < 2 \/ min_len = 0 THEN 50
            ELSE LET de == SumSeq(SubSeq(even_steps, 1, min_len))
                     do == SumSeq(SubSeq(odd_steps, 1, min_len))
                     symmetry == 100 - Min2((10 * Abs(de - do)) \div min_len, 100)
                 IN Max2(0, Min2(100, symmetry))

\* _analyze_symmetry, times 100
_analyze_symmetry(steps) ==
    IF Len(steps) < 4 THEN 50
    ELSE LET step_intervals == Diff(steps)
             even_steps == EvenIdx(step_intervals)
             odd_steps == OddIdx(step_intervals)
             min_len == Min2(Len(even_steps), Len(odd_steps))
         IN IF Len(step_intervals) < 2 \/ min_len = 0 THEN 50
            ELSE LET de == SumSeq(SubSeq(even_steps, 1, min_len))
                     do == SumSeq(SubSeq(odd_steps, 1, min_len))
                     symmetry == 100 - Min2((10 * Abs(de - do)) \div min_len, 100)
                 IN Max2(0, Min2(100, symmetry))

\* _calculate_stability, times 100
_calculate_stability(gyro_data) ==
    IF Len(gyro_data.x) = 0 THEN 50
    ELSE LET variability == StdScaled(_calculate_magnitude(gyro_data), 1)
             stability == 100 - Min2(variability \div 5, 100)
         IN Max2(0, Min2(100, stability))

\* _detect_gait_phases
\* Faulty variant: the label follows the parity of step_number, not of i
DetectGaitPhasesByStepNumber(steps) ==
    [n \in 1..(Len(steps) - 1) |->
        [step_number |-> n,
         start_index |-> steps[n],
         end_index   |-> steps[n + 1],
         duration    |-> steps[n + 1] - steps[n],
         phase       |-> IF n % 2 = 0 THEN "stance" ELSE "swing"]]

_detect_gait_phases(steps) ==
    [n \in 1..(Len(steps) - 1) |->
        [step_number |-> n,
         start_index |-> steps[n],
         end_index   |-> steps[n + 1],
         duration    |-> steps[n + 1] - steps[n],
         phase       |-> IF (n - 1) % 2 = 0 THEN "stance" ELSE "swing"]]

\* _calculate_step_regularity, times 100: 1 - min(std/mean, 1)
_calculate_step_regularity(steps) ==
    IF Len(steps) < 3 THEN 50
    ELSE LET step_intervals == Diff(steps)
             k == Len(step_intervals)
             d == k * SumSeq(SqSeq(step_intervals))
                  - SumSeq(step_intervals) * SumSeq(step_intervals)
             regularity == 100 - Min2(ISqrt(10000 * d) \div SumSeq(step_intervals), 100)
         IN Max2(0, Min2(100, regularity))

\* _calculate_vertical_oscillation, times 100
_calculate_vertical_oscillation(accel_data) ==
    IF Len(accel_data.y) = 0 THEN 0
    ELSE (StdScaled(accel_data.y, 100) * 5) \div 100

-----------------------------------------------------------------------------
(* scipy.signal.find_peaks(x, distance, prominence) on an integer signal,  *)
(* as _detect_steps calls it.  Indices are 0-based as in the code; x is a  *)
(* TLA+ sequence, so sample i is x[i + 1].                                 *)

\* i is the midpoint of a plateau strictly higher than both its neighbours
\* (scipy _local_maxima_1d; the first and the last sample are never peaks).
IsLocalMax(x, i) ==
    \E l \in 1..(Len(x) - 2) : \E r \in l..(Len(x) - 2) :
        /\ i = (l + r) \div 2
        /\ \A j \in l..r : x[j + 1] = x[l + 1]
        /\ x[l] < x[l + 1]
        /\ x[r + 2] < x[r + 1]

LocalMaxima(x) == {i \in 0..(Len(x) - 1) : IsLocalMax(x, i)}

\* The peak scipy's distance selection visits next: the highest one, the
\* later index first among equal heights.
TopPeak(x, cand) ==
    CHOOSE i \in cand : \A j \in cand :
        x[j + 1] < x[i + 1] \/ (x[j + 1] = x[i + 1] /\ j <= i)

RECURSIVE SelectByDistance(_, _, _, _)
SelectByDistance(x, todo, kept, distance) ==
    IF todo = {} THEN kept
    ELSE LET i == TopPeak(x, todo)
             near == {j \in todo : j # i /\ Abs(j - i) < distance}
         IN SelectByDistance(x, todo \ ({i} \cup near), kept \cup {i}, distance)

\* np.min(x[a..b]) over 0-based indices a..b
MinOver(x, a, b) ==
    CHOOSE m \in {x[j + 1] : j \in a..b} : \A j \in a..b : m <= x[j + 1]

\* scipy _peak_prominences with wlen = None
Prominence(x, i) ==
    LET n == Len(x)
        lstop == {j \in 0..(i - 1) : x[j + 1] > x[i + 1]}
        rstop == {j \in (i + 1)..(n - 1) : x[j + 1] > x[i + 1]}
        lbase == IF lstop = {} THEN 0
                 ELSE (CHOOSE j \in lstop : \A q \in lstop : q <= j) + 1
        rbase == IF rstop = {} THEN n - 1
                 ELSE (CHOOSE j \in rstop : \A q \in rstop : j <= q) - 1
    IN x[i + 1] - Max2(MinOver(x, lbase, i), MinOver(x, i, rbase))

RECURSIVE SortedSeq(_)
SortedSeq(S) ==
    IF S = {} THEN <<>>
    ELSE LET m == CHOOSE i \in S : \A j \in S : i <= j
         IN <<m>> \o SortedSeq(S \ {m})

find_peaks(x, distance, prominence) ==
    SortedSeq({i \in SelectByDistance(x, LocalMaxima(x), {}, distance) :
                  Prominence(x, i) >= prominence})

-----------------------------------------------------------------------------
(* gait_processor.py: _bandpass_filter and _detect_steps                   *)

NoRate == -1

\* scipy.signal.butter(4, [low, high], btype='band') raises ValueError
\* unless 0 < low and high < 1, that is unless nyquist = rate/2 > highcut;
\* scipy.signal.filtfilt raises ValueError unless len(data) > padlen = 27.
\* Both are caught and the raw data returned (lines 204-211).
FilterApplies(n, rate) == rate > 2 * 3 * 1000 /\ n > 27

\* _bandpass_filter: which sampling rate the call read from the processor
\* (line 198; NoRate when it returned before reading it) and whether its
\* output is the filtered signal or the unchanged input.
_bandpass_filter(data, self_sampling_rate) ==
    IF Len(data) < 10
    THEN [rate |-> NoRate, filtered |-> FALSE]
    ELSE [rate |-> self_sampling_rate,
          filtered |-> FilterApplies(Len(data), self_sampling_rate)]

\* The increasing index lists find_peaks can return on a signal of n
\* samples: interior indices, consecutive ones at least `distance` apart.
RECURSIVE PeakLists(_, _, _)
PeakLists(lo, n, distance) ==
    {<<>>} \cup UNION {{<<i>> \o rest : rest \in PeakLists(i + distance, n, distance)}
                        : i \in lo..(n - 2)}

\* Faulty variant: a ValueError of butter or filtfilt leaves the filter
BandpassRaisesOnFilterError(data, self_sampling_rate) ==
    Len(data) >= 10 /\ ~FilterApplies(Len(data), self_sampling_rate)

\* _bandpass_filter raises: lines 198-200 divide by self.sampling_rate / 2
\* before the try block, so only a zero sampling rate leaves the method by
\* an exception (ZeroDivisionError)
BandpassRaises(data, self_sampling_rate) ==
    Len(data) >= 10 /\ self_sampling_rate = 0

\* One run of _detect_steps: the list returned, how often _bandpass_filter
\* and find_peaks were called, whether find_peaks saw the filtered signal
StepsRun(steps, filter_calls, filtered, passes, raised) ==
    [steps |-> steps, filter_calls |-> filter_calls, filtered |-> filtered,
     passes |-> passes, raised |-> raised]

\* Faulty variant: the first find_peaks pass already uses prominence 0.05
DetectStepsRunsLowFirst(magnitude, self_sampling_rate) ==
    IF Len(magnitude) < 2 THEN {StepsRun(<<>>, 0, FALSE, 0, FALSE)}
    ELSE LET f == _bandpass_filter(magnitude, self_sampling_rate)
             peaks == find_peaks(magnitude, 10, 5)
         IN IF ~f.filtered
            THEN {StepsRun(peaks, 1, FALSE, IF Len(peaks) > 0 THEN 1 ELSE 2, FALSE)}
            ELSE {StepsRun(<<>>, 1, TRUE, 2, FALSE)}

\* _detect_steps (lines 158-190): the runs the call can take.  On the raw
\* signal there is one, with the list find_peaks computes; the values of a
\* signal that went through butter/filtfilt are not computed here, so for
\* it every list find_peaks can return is allowed in either pass, except on
\* a constant input, whose filtered signal has no peak.
DetectStepsRuns(magnitude, self_sampling_rate) ==
    IF Len(magnitude) < 2 THEN {StepsRun(<<>>, 0, FALSE, 0, FALSE)}
    ELSE IF BandpassRaises(magnitude, self_sampling_rate)
    THEN {StepsRun(<<>>, 1, FALSE, 0, TRUE)}
    ELSE LET f == _bandpass_filter(magnitude, self_sampling_rate)
             peaks == find_peaks(magnitude, 10, 10)
         IN IF ~f.filtered
            THEN IF Len(peaks) > 0 THEN {StepsRun(peaks, 1, FALSE, 1, FALSE)}
                 ELSE {StepsRun(find_peaks(magnitude, 10, 5), 1, FALSE, 2, FALSE)}
            ELSE IF \A i \in 1..Len(magnitude) : magnitude[i] = magnitude[1]
            THEN {StepsRun(<<>>, 1, TRUE, 2, FALSE)}
            ELSE {StepsRun(p, 1, TRUE, 1, FALSE) :
                     p \in PeakLists(1, Len(magnitude), 10) \ {<<>>}}
                 \cup {StepsRun(p, 1, TRUE, 2, FALSE) :
                          p \in PeakLists(1, Len(magnitude), 10)}

\* _detect_steps: the set of step lists the call can return
_detect_steps(magnitude, self_sampling_rate) ==
    {run.steps : run \in DetectStepsRuns(magnitude, self_sampling_rate)}

-----------------------------------------------------------------------------
(* gait_processor.py: GaitProcessor.analyze, lines 55-102, for the step    *)
(* list `steps` that _detect_steps returned.  The result's 'timestamp'     *)
(* (datetime.now()) is left out.                                           *)

AnalysisResult(accelerometer, gyroscope, user_id, session_id, steps) ==
    LET accel_data == _convert_to_arrays(accelerometer)
        gyro_data == _convert_to_arrays(gyroscope)
        step_count == Len(steps)
        duration == _calculate_duration(accelerometer)
        cadence == Cadence(step_count, duration)
        stride_length == _estimate_stride_length(accel_data, steps)
    IN [session_id |-> session_id,
        user_id |-> user_id,
        metrics |->
          [step_count |-> step_count,
           cadence |-> cadence,
           stride_length |-> stride_length,
           velocity |-> _calculate_velocity(stride_length, cadence),
           gait_symmetry |-> _analyze_symmetry(steps),
           stability_score |-> _calculate_stability(gyro_data),
           step_regularity |-> _calculate_step_regularity(steps),
           vertical_oscillation |-> _calculate_vertical_oscillation(accel_data)],
        gait_phases |-> _detect_gait_phases(steps),
        analysis_duration |-> RoundDiv(duration, 10),
        data_quality |-> _assess_data_quality(accelerometer, gyroscope)]

\* analyze, lines 47-53: the processor's sampling rate after the estimate
RateAfterEstimate(actual_sampling_rate, self_sampling_rate) ==
    IF actual_sampling_rate > 0 THEN actual_sampling_rate
    ELSE self_sampling_rate

\* _add_to_history, line 361: self.history[-100:]
LastRecords(h) ==
    IF Len(h) > HISTORY_LIMIT
    THEN SubSeq(h, Len(h) - HISTORY_LIMIT + 1, Len(h))
    ELSE h

\* Faulty variant: the trim keeps the oldest records: self.history[:100]
AddToHistoryKeepOldest(h, result) ==
    LET appended == Append(h, result)
    IN IF Len(appended) > HISTORY_LIMIT THEN SubSeq(appended, 1, HISTORY_LIMIT)
       ELSE appended

\* _add_to_history run without interruption
_add_to_history(h, result) ==
    LET appended == Append(h, result)
    IN IF Len(appended) > HISTORY_LIMIT THEN LastRecords(appended) ELSE appended

-----------------------------------------------------------------------------
(* Inputs of the analyze calls.                                            *)

MaxStreamLen == 12   \* longest stream of the processor specifications
MaxCalls == 3        \* analyze calls begun after the initial state

Sample(x, y, z, t) ==
    JDict([x |-> JNum(x), y |-> JNum(y), z |-> JNum(z), timestamp |-> JNum(t)])
SampleNoTime(x, y, z) ==
    JDict([x |-> JNum(x), y |-> JNum(y), z |-> JNum(z)])

\* A walking-like vertical axis: one bump every 4 samples.
Wave(i) == IF i % 4 = 2 THEN 3 ELSE 1

\* n samples, interval_ms apart
Stream(n, interval_ms) ==
    [i \in 1..n |-> Sample(0, Wave(i), 1, (i - 1) * interval_ms)]
\* n samples without the optional timestamp
StreamNoTime(n) == [i \in 1..n |-> SampleNoTime(0, Wave(i), 1)]

Users == {"u1", "u2"}

\* the accelerometer streams: 100 Hz, 50 Hz, no timestamps (estimate 0 with
\* the filter reached), and too short for an estimate or the filter
AccelStreams ==
    {Stream(MaxStreamLen, 10), Stream(MaxStreamLen, 20),
     StreamNoTime(MaxStreamLen), Stream(2, 1000)}
GyroStream == Stream(3, 20)

-----------------------------------------------------------------------------
(* The shared GaitProcessor (app.py line 25) and the calls running on it.  *)

Threads == {1, 2}

NoResult == [session_id |-> 0]

\* The frame of an analyze call.  pc is "idle" before the first call and
\* after a return; the other fields then still show the last call.
IdleFrame ==
    [pc |-> "idle", accelerometer |-> <<>>, gyroscope |-> <<>>,
     user_id |-> "", session_id |-> 0,
     actual_sampling_rate |-> 0, filter_rate |-> NoRate,
     result |-> NoResult, sliced |-> <<>>]

Running == {t \in Threads : frame[t].pc # "idle"}

\* A session id no other call has: the calls are numbered as they begin.
NextSessionId == Len(completed) + Cardinality(Running) + 1

\* The history a fresh processor holds after k sequential calls with the
\* 50 Hz stream, users alternating.
PrefillResult(i) ==
    LET acc == Stream(MaxStreamLen, 20)
        steps == CHOOSE st \in
                   _detect_steps(_calculate_magnitude(_convert_to_arrays(acc)),
                                 DEFAULT_SAMPLING_RATE * 1000) : TRUE
    IN AnalysisResult(acc, GyroStream, IF i % 2 = 1 THEN "u1" ELSE "u2", i, steps)

Prefill(k) == [i \in 1..k |-> PrefillResult(i)]

InitialHistoryLens == {0, HISTORY_LIMIT - 1}

NoRequest == [endpoint |-> "none"]
NoResponse == [status |-> 0]

ProcessorInit ==
    /\ sampling_rate = DEFAULT_SAMPLING_RATE * 1000
    /\ \E k \in InitialHistoryLens :
         /\ history = Prefill(k)
         /\ completed = Prefill(k)
    /\ frame = [t \in Threads |-> IdleFrame]
    /\ calls = 0

\* analyze, lines 44-53: the call begins, estimates the sampling rate of
\* its accelerometer stream and stores a positive estimate on the processor.
AnalyzeBegin(t, accelerometer, gyroscope, user_id) ==
    /\ frame[t].pc = "idle"
    /\ calls < MaxCalls
    /\ LET actual == _calculate_sampling_rate(accelerometer)
       IN /\ sampling_rate' = RateAfterEstimate(actual, sampling_rate)
          /\ frame' = [frame EXCEPT ![t] =
                 [IdleFrame EXCEPT !.pc = "estimated",
                                   !.accelerometer = accelerometer,
                                   !.gyroscope = gyroscope,
                                   !.user_id = user_id,
                                   !.session_id = NextSessionId,
                                   !.actual_sampling_rate = actual]]
    /\ calls' = calls + 1
    /\ UNCHANGED <<problem_detector, history, completed, request, response>>

\* analyze, lines 55-102: step detection, whose filter reads the
\* processor's sampling rate, and the metrics.
AnalyzeCompute(t) ==
    /\ frame[t].pc = "estimated"
    /\ LET f == frame[t]
           magnitude == _calculate_magnitude(_convert_to_arrays(f.accelerometer))
       IN \E steps \in _detect_steps(magnitude, sampling_rate) :
            frame' = [frame EXCEPT ![t] =
                [f EXCEPT !.pc = "computed",
                          !.filter_rate =
                              IF Len(magnitude) < 2 THEN NoRate
                              ELSE _bandpass_filter(magnitude, sampling_rate).rate,
                          !.result = AnalysisResult(f.accelerometer, f.gyroscope,
                                                    f.user_id, f.session_id, steps)]]
    /\ UNCHANGED <<problem_detector, sampling_rate, history, completed, calls,
                   request, response>>

\* _add_to_history, line 358
HistoryAppend(t) ==
    /\ frame[t].pc = "computed"
    /\ history' = Append(history, frame[t].result)
    /\ frame' = [frame EXCEPT ![t].pc = "appended"]
    /\ UNCHANGED <<problem_detector, sampling_rate, completed, calls,
                   request, response>>

\* _add_to_history, line 360: the length test; analyze returns when it fails
HistoryTest(t) ==
    /\ frame[t].pc = "appended"
    /\ IF Len(history) > HISTORY_LIMIT
       THEN /\ frame' = [frame EXCEPT ![t].pc = "trimming"]
            /\ UNCHANGED completed
       ELSE /\ frame' = [frame EXCEPT ![t].pc = "idle"]
            /\ completed' = Append(completed, frame[t].result)
    /\ UNCHANGED <<problem_detector, sampling_rate, history, calls,
                   request, response>>

\* _add_to_history, line 361, right-hand side: the slice is a new list
HistorySlice(t) ==
    /\ frame[t].pc = "trimming"
    /\ frame' = [frame EXCEPT ![t].pc = "sliced", ![t].sliced = LastRecords(history)]
    /\ UNCHANGED <<problem_detector, sampling_rate, history, completed, calls,
                   request, response>>

\* _add_to_history, line 361, the assignment; analyze returns
HistoryAssign(t) ==
    /\ frame[t].pc = "sliced"
    /\ history' = frame[t].sliced
    /\ frame' = [frame EXCEPT ![t].pc = "idle", ![t].sliced = <<>>]
    /\ completed' = Append(completed, frame[t].result)
    /\ UNCHANGED <<problem_detector, sampling_rate, calls, request, response>>

\* One analyze call run from its first line to its return with no other
\* call in between.
Analyze(accelerometer, gyroscope, user_id) ==
    /\ calls < MaxCalls
    /\ LET actual == _calculate_sampling_rate(accelerometer)
           rate == RateAfterEstimate(actual, sampling_rate)
           magnitude == _calculate_magnitude(_convert_to_arrays(accelerometer))
       IN \E steps \in _detect_steps(magnitude, rate) :
            LET result == AnalysisResult(accelerometer, gyroscope, user_id,
                                         NextSessionId, steps)
            IN /\ sampling_rate' = rate
               /\ history' = _add_to_history(history, result)
               /\ completed' = Append(completed, result)
               /\ frame' = [frame EXCEPT ![1] =
                     [IdleFrame EXCEPT !.accelerometer = accelerometer,
                                       !.gyroscope = gyroscope,
                                       !.user_id = user_id,
                                       !.session_id = NextSessionId,
                                       !.actual_sampling_rate = actual,
                                       !.filter_rate =
                                           IF Len(magnitude) < 2 THEN NoRate
                                           ELSE _bandpass_filter(magnitude, rate).rate,
                                       !.result = result]]
    /\ calls' = calls + 1

NoDetector == [loaded |-> FALSE]

\* Sequential use of one GaitProcessor.
SeqInit ==
    /\ ProcessorInit
    /\ problem_detector = NoDetector
    /\ request = NoRequest
    /\ response = NoResponse

SeqNext ==
    /\ \E a \in AccelStreams, u \in Users : Analyze(a, GyroStream, u)
    /\ UNCHANGED <<problem_detector, request, response>>

SpecSeq == SeqInit /\ [][SeqNext]_vars

\* Two worker threads running analyze on the shared GaitProcessor.
ConcNext ==
    \E t \in Threads :
        \/ \E a \in AccelStreams : AnalyzeBegin(t, a, GyroStream, "u1")
        \/ AnalyzeCompute(t)
        \/ HistoryAppend(t)
        \/ HistoryTest(t)
        \/ HistorySlice(t)
        \/ HistoryAssign(t)

SpecConc == SeqInit /\ [][ConcNext]_vars

-----------------------------------------------------------------------------
(* problem_detector.py: the baseline file and GaitProblemDetector.__init__ *)

Stats(mean, std, p5, p25, p75) ==
    [mean |-> mean, std |-> std, p5 |-> p5, p25 |-> p25, p75 |-> p75]

\* generate_baselines.py, generate_research_based_baselines (hundredths;
\* stride_variability, 0.025 +/- 0.015, is rounded to them)
ResearchBaselines ==
    [cadence |-> Stats(10500, 1000, 8800, 9800, 11200),
     stride_length_estimate |-> Stats(130, 15, 105, 120, 140),
     velocity_estimate |-> Stats(130, 20, 95, 115, 145),
     gait_symmetry |-> Stats(95, 5, 87, 92, 98),
     stride_variability |-> Stats(3, 2, 1, 2, 4),
     stride_time |-> Stats(114, 10, 98, 107, 122)]

\* The metric names process_physionet_data.py writes (lines 133-140, 185-204),
\* with the statistics test_physionet_baselines.py quotes for them.
PhysioNetBaselines ==
    [cadence |-> Stats(9570, 400, 8790, 9030, 9900),
     velocity |-> Stats(135, 10, 112, 131, 140),
     stride_length |-> Stats(171, 15, 134, 166, 180),
     gait_symmetry |-> Stats(92, 0, 85, 87, 95),
     step_regularity |-> Stats(59, 1, 58, 58, 60),
     stability_score |-> Stats(54, 1, 52, 53, 55)]

\* save_baselines (generate_baselines.py lines 143-161): the envelope
WrappedFile(baselines) ==
    [source |-> "Published Research Meta-Analysis", baselines |-> baselines]

MissingFile == [exists |-> FALSE]
File(content) == [exists |-> TRUE, content |-> content]

BaselineFiles ==
    {MissingFile, File(WrappedFile(ResearchBaselines)), File(ResearchBaselines),
     File(PhysioNetBaselines)}

\* GaitProblemDetector.__init__ (lines 13-34) under app.py's try/except
\* (lines 27-34): the detector, or None when the file does not exist.
GaitProblemDetector(file) ==
    IF ~file.exists THEN NoDetector
    ELSE IF "baselines" \in DOMAIN file.content
    THEN [loaded |-> TRUE,
          baselines |-> file.content.baselines,
          source |-> IF "source" \in DOMAIN file.content.baselines
                     THEN file.content.baselines.source
                     ELSE "PhysioNet Dataset"]
    ELSE [loaded |-> TRUE,
          baselines |-> file.content,
          source |-> "PhysioNet Gait in Neurodegenerative Disease Database (16 control subjects)"]

-----------------------------------------------------------------------------
(* problem_detector.py: percentile and the six checks.  A finding is a     *)
(* record holding the keys the code puts in the dict; the narrative texts  *)
(* are named by their template (problem and severity) and the values       *)
(* formatted into them.                                                    *)

\* 1000 * the standard-normal quantile of k/100, k = 1..99
NormalQuantile ==
    << -2326, -2054, -1881, -1751, -1645, -1555, -1476, -1405, -1341, -1282,
       -1227, -1175, -1126, -1080, -1036, -994, -954, -915, -878, -842,
       -806, -772, -739, -706, -674, -643, -613, -583, -553, -524,
       -496, -468, -440, -412, -385, -358, -332, -305, -279, -253,
       -228, -202, -176, -151, -126, -100, -75, -50, -25, 0,
       25, 50, 75, 100, 126, 151, 176, 202, 228, 253,
       279, 305, 332, 358, 385, 412, 440, 468, 496, 524,
       553, 583, 613, 643, 674, 706, 739, 772, 806, 842,
       878, 915, 954, 994, 1036, 1080, 1126, 1175, 1227, 1282,
       1341, 1405, 1476, 1555, 1645, 1751, 1881, 2054, 2326 >>

\* Faulty variant: int(norm.cdf(z) * 100) returned without the clamp
CalculatePercentileUnclamped(value, baseline) ==
    LET num == IF baseline.std > 0 THEN value - baseline.mean ELSE 0
        den == IF baseline.std > 0 THEN baseline.std ELSE 1
    IN Cardinality({k \in 1..99 : NormalQuantile[k] * den <= 1000 * num})

\* _calculate_percentile: max(1, min(99, int(norm.cdf(z) * 100))), where
\* int(cdf(z) * 100) is the number of k with quantile(k/100) <= z
_calculate_percentile(value, baseline) ==
    LET num == IF baseline.std > 0 THEN value - baseline.mean ELSE 0
        den == IF baseline.std > 0 THEN baseline.std ELSE 1
        percentile == Cardinality({k \in 1..99 : NormalQuantile[k] * den <= 1000 * num})
    IN Max2(1, Min2(99, percentile))

\* round(value, 1) of a value in hundredths
Round1(v) == 10 * RoundDiv(v, 10)

BaselineFinding(problem, severity, category, current_value, lo, hi, percentile) ==
    [problem |-> problem, severity |-> severity, category |-> category,
     current_value |-> current_value,
     normal_range |-> <<lo, hi>>,
     percentile |-> percentile,
     description |-> <<problem, severity, current_value, percentile>>,
     impact |-> <<problem, severity>>,
     clinical_significance |-> <<problem, severity>>,
     recommendations |-> <<problem, severity>>]

EmpiricalFinding(problem, severity, category, current_value) ==
    [problem |-> problem, severity |-> severity, category |-> category,
     current_value |-> current_value,
     normal_range |-> <<75>>,
     description |-> <<problem, severity, current_value>>,
     impact |-> <<problem, severity>>,
     clinical_significance |-> <<problem, severity>>,
     recommendations |-> <<problem, severity>>]

\* The shape shared by _check_cadence, _check_symmetry, _check_stride_length
\* and _check_velocity: severe below p5, else moderate below p25.  digits
\* is the precision the check rounds and formats with (1 for cadence).
Shown(v, digits) == IF digits = 1 THEN Round1(v) ELSE v

\* Faulty variant: the severe test is value <= p5
CheckBelowInclusive(value, baseline, problem, category, digits) ==
    IF value <= baseline.p5
    THEN << BaselineFinding(problem, "severe", category, Shown(value, digits),
                            Shown(baseline.p25, digits), Shown(baseline.p75, digits),
                            _calculate_percentile(value, baseline)) >>
    ELSE IF value < baseline.p25
    THEN << BaselineFinding(problem, "moderate", category, Shown(value, digits),
                            Shown(baseline.p25, digits), Shown(baseline.p75, digits),
                            _calculate_percentile(value, baseline)) >>
    ELSE <<>>

CheckBelow(value, baseline, problem, category, digits) ==
    IF value < baseline.p5
    THEN << BaselineFinding(problem, "severe", category, Shown(value, digits),
                            Shown(baseline.p25, digits), Shown(baseline.p75, digits),
                            _calculate_percentile(value, baseline)) >>
    ELSE IF value < baseline.p25
    THEN << BaselineFinding(problem, "moderate", category, Shown(value, digits),
                            Shown(baseline.p25, digits), Shown(baseline.p75, digits),
                            _calculate_percentile(value, baseline)) >>
    ELSE <<>>

_check_cadence(baselines, cadence) ==
    CheckBelow(cadence, baselines["cadence"], "slow_cadence", "Speed & Rhythm", 1)

_check_symmetry(baselines, symmetry) ==
    CheckBelow(symmetry, baselines["gait_symmetry"], "asymmetric_gait",
               "Balance & Symmetry", 2)

_check_stride_length(baselines, stride_length) ==
    CheckBelow(stride_length, baselines["stride_length_estimate"], "short_stride",
               "Gait Pattern", 2)

_check_velocity(baselines, velocity) ==
    CheckBelow(velocity, baselines["velocity_estimate"], "slow_velocity",
               "Speed & Rhythm", 2)

\* _check_stability: fixed cut points 0.5 and 0.65
_check_stability(stability_score) ==
    IF stability_score < 50
    THEN << EmpiricalFinding("poor_stability", "severe", "Balance & Symmetry",
                             stability_score) >>
    ELSE IF stability_score < 65
    THEN << EmpiricalFinding("poor_stability", "moderate", "Balance & Symmetry",
                             stability_score) >>
    ELSE <<>>

\* _check_step_regularity: fixed cut points 0.5 and 0.7; the baseline is
\* looked up (line 327) and never used
_check_step_regularity(baselines, step_regularity) ==
    IF step_regularity < 50
    THEN << EmpiricalFinding("irregular_steps", "severe", "Gait Pattern",
                             step_regularity) >>
    ELSE IF step_regularity < 70
    THEN << EmpiricalFinding("irregular_steps", "moderate", "Gait Pattern",
                             step_regularity) >>
    ELSE <<>>

\* 'm' in user_metrics and 'b' in self.baselines
Has(user_metrics, m) == m \in DOMAIN user_metrics

\* Faulty variant: an absent cadence is read as user_metrics.get('cadence', 0)
DetectProblemsCadenceDefault(baselines, user_metrics) ==
    (IF "cadence" \in DOMAIN baselines
     THEN _check_cadence(baselines, IF Has(user_metrics, "cadence")
                                    THEN user_metrics["cadence"] ELSE 0)
     ELSE <<>>)
    \o
    (IF Has(user_metrics, "gait_symmetry") /\ "gait_symmetry" \in DOMAIN baselines
     THEN _check_symmetry(baselines, user_metrics["gait_symmetry"]) ELSE <<>>)
    \o
    (IF Has(user_metrics, "stride_length") /\ "stride_length_estimate" \in DOMAIN baselines
     THEN _check_stride_length(baselines, user_metrics["stride_length"]) ELSE <<>>)
    \o
    (IF Has(user_metrics, "velocity") /\ "velocity_estimate" \in DOMAIN baselines
     THEN _check_velocity(baselines, user_metrics["velocity"]) ELSE <<>>)
    \o
    (IF Has(user_metrics, "stability_score")
     THEN _check_stability(user_metrics["stability_score"]) ELSE <<>>)
    \o
    (IF Has(user_metrics, "step_regularity") /\ "stride_variability" \in DOMAIN baselines
     THEN _check_step_regularity(baselines, user_metrics["step_regularity"]) ELSE <<>>)

\* detect_problems (lines 36-83)
detect_problems(baselines, user_metrics) ==
    (IF Has(user_metrics, "cadence") /\ "cadence" \in DOMAIN baselines
     THEN _check_cadence(baselines, user_metrics["cadence"]) ELSE <<>>)
    \o
    (IF Has(user_metrics, "gait_symmetry") /\ "gait_symmetry" \in DOMAIN baselines
     THEN _check_symmetry(baselines, user_metrics["gait_symmetry"]) ELSE <<>>)
    \o
    (IF Has(user_metrics, "stride_length") /\ "stride_length_estimate" \in DOMAIN baselines
     THEN _check_stride_length(baselines, user_metrics["stride_length"]) ELSE <<>>)
    \o
    (IF Has(user_metrics, "velocity") /\ "velocity_estimate" \in DOMAIN baselines
     THEN _check_velocity(baselines, user_metrics["velocity"]) ELSE <<>>)
    \o
    (IF Has(user_metrics, "stability_score")
     THEN _check_stability(user_metrics["stability_score"]) ELSE <<>>)
    \o
    (IF Has(user_metrics, "step_regularity") /\ "stride_variability" \in DOMAIN baselines
     THEN _check_step_regularity(baselines, user_metrics["step_regularity"]) ELSE <<>>)

\* Faulty variant: step regularity is examined whenever the metric is
\* present, and its check still reads baselines['stride_variability']
CheckRulesRegularityUnguarded ==
    {[metric |-> "cadence", guard |-> "cadence", lookup |-> "cadence"],
     [metric |-> "gait_symmetry", guard |-> "gait_symmetry", lookup |-> "gait_symmetry"],
     [metric |-> "stride_length", guard |-> "stride_length_estimate",
      lookup |-> "stride_length_estimate"],
     [metric |-> "velocity", guard |-> "velocity_estimate", lookup |-> "velocity_estimate"],
     [metric |-> "stability_score", guard |-> "", lookup |-> ""],
     [metric |-> "step_regularity", guard |-> "", lookup |-> "stride_variability"]}

\* The mapping rules of detect_problems: the metric a rule examines, the
\* baseline key its guard requires (lines 60-80; "" when there is none) and
\* the baseline key its check reads with self.baselines[...] (lines 87, 135,
\* 184, 233, 327; "" when it reads none).
CheckRules ==
    {[metric |-> "cadence", guard |-> "cadence", lookup |-> "cadence"],
     [metric |-> "gait_symmetry", guard |-> "gait_symmetry", lookup |-> "gait_symmetry"],
     [metric |-> "stride_length", guard |-> "stride_length_estimate",
      lookup |-> "stride_length_estimate"],
     [metric |-> "velocity", guard |-> "velocity_estimate", lookup |-> "velocity_estimate"],
     [metric |-> "stability_score", guard |-> "", lookup |-> ""],
     [metric |-> "step_regularity", guard |-> "stride_variability",
      lookup |-> "stride_variability"]}

\* Faulty variant: a check that takes its baseline out of the store
\* (self.baselines.pop) instead of reading it
BaselinesAfterDetectPopped(baselines, user_metrics) ==
    [key \in DOMAIN baselines \ {"cadence"} |-> baselines[key]]

\* self.baselines after detect_problems returned: the method and its checks
\* only read it (lines 60-81, 87, 135, 184, 233, 327, 376-377)
BaselinesAfterDetect(baselines, user_metrics) == baselines

\* The rules whose check detect_problems calls
Examined(baselines, user_metrics) ==
    {c \in CheckRules :
        /\ c.metric \in DOMAIN user_metrics
        /\ c.guard = "" \/ c.guard \in DOMAIN baselines}

\* detect_problems raises KeyError when a check it calls reads a baseline
\* the store does not hold
DetectProblemsRaises(baselines, user_metrics) ==
    \E c \in Examined(baselines, user_metrics) :
        c.lookup # "" /\ c.lookup \notin DOMAIN baselines

\* prioritize_problems (lines 387-398): sorted() is stable
severity_order(sev) ==
    CASE sev = "severe" -> 0 [] sev = "moderate" -> 1 [] sev = "mild" -> 2
      [] OTHER -> 99
category_order(cat) ==
    CASE cat = "Speed & Rhythm" -> 0 [] cat = "Balance & Symmetry" -> 1
      [] cat = "Gait Pattern" -> 2 [] OTHER -> 99

\* Faulty variant: an unstable sort, equal keys change places
KeyNotGreater(a, b) ==
    \/ severity_order(a.severity) < severity_order(b.severity)
    \/ /\ severity_order(a.severity) = severity_order(b.severity)
       /\ category_order(a.category) <= category_order(b.category)

KeyLess(a, b) ==
    \/ severity_order(a.severity) < severity_order(b.severity)
    \/ /\ severity_order(a.severity) = severity_order(b.severity)
       /\ category_order(a.category) < category_order(b.category)

\* insert p after every element whose key is not greater
RECURSIVE InsertSorted(_, _)
InsertSorted(sorted, p) ==
    IF sorted = <<>> THEN <<p>>
    ELSE IF KeyLess(p, Head(sorted)) THEN <<p>> \o sorted
    ELSE <<Head(sorted)>> \o InsertSorted(Tail(sorted), p)

RECURSIVE SortFrom(_, _)
SortFrom(sorted, rest) ==
    IF rest = <<>> THEN sorted
    ELSE SortFrom(InsertSorted(sorted, Head(rest)), Tail(rest))

prioritize_problems(problems) == SortFrom(<<>>, problems)

CountSeverity(problems, sev) ==
    Cardinality({i \in 1..Len(problems) : problems[i].severity = sev})

\* Faulty variant: two moderate findings already give the moderate tier
GenerateSummaryTwoModerate(problems) ==
    IF problems = <<>>
    THEN [overall_status |-> "normal", risk_level |-> "low",
          summary |-> <<"normal">>, primary_concerns |-> <<>>]
    ELSE LET severe_count == CountSeverity(problems, "severe")
             moderate_count == CountSeverity(problems, "moderate")
             tier == IF severe_count >= 2 THEN 1
                     ELSE IF severe_count >= 1 \/ moderate_count >= 2 THEN 2 ELSE 3
         IN [overall_status |->
                 CASE tier = 1 -> "needs_immediate_attention"
                   [] tier = 2 -> "needs_attention" [] OTHER -> "needs_improvement",
             risk_level |->
                 CASE tier = 1 -> "high" [] tier = 2 -> "moderate"
                   [] OTHER -> "low_moderate",
             total_problems |-> Len(problems),
             severe_count |-> severe_count,
             moderate_count |-> moderate_count,
             summary |-> <<Len(problems), severe_count, moderate_count,
                           problems[1].category>>,
             primary_concerns |->
                 [i \in 1..Min2(3, Len(problems)) |-> problems[i].description]]

\* generate_summary (lines 400-441)
generate_summary(problems) ==
    IF problems = <<>>
    THEN [overall_status |-> "normal", risk_level |-> "low",
          summary |-> <<"normal">>, primary_concerns |-> <<>>]
    ELSE LET severe_count == CountSeverity(problems, "severe")
             moderate_count == CountSeverity(problems, "moderate")
             risk_level == IF severe_count >= 2 THEN "high"
                           ELSE IF severe_count >= 1 \/ moderate_count >= 3
                           THEN "moderate" ELSE "low_moderate"
             status == IF severe_count >= 2 THEN "needs_immediate_attention"
                       ELSE IF severe_count >= 1 \/ moderate_count >= 3
                       THEN "needs_attention" ELSE "needs_improvement"
         IN [overall_status |-> status,
             risk_level |-> risk_level,
             total_problems |-> Len(problems),
             severe_count |-> severe_count,
             moderate_count |-> moderate_count,
             summary |-> <<Len(problems), severe_count, moderate_count,
                           problems[1].category>>,
             primary_concerns |->
                 [i \in 1..Min2(3, Len(problems)) |-> problems[i].description]]

-----------------------------------------------------------------------------
(* app.py: POST /api/gait/analyze                                          *)

\* The parameters GaitProcessor.analyze declares (gait_processor.py lines
\* 23-24) and the keyword arguments analyze_gait passes (app.py lines
\* 113-122).  Python raises TypeError, before the body runs, for a keyword
\* argument that is no parameter.
analyze_parameters == {"accelerometer", "gyroscope", "user_id", "session_id"}
analyze_keywords ==
    {"accelerometer", "gyroscope", "magnetometer", "barometer", "deviceMotion",
     "pedometer", "user_id", "session_id"}
CallRaisesTypeError == analyze_keywords \ analyze_parameters # {}

\* Lines 74-87, the request dump: len() of the five stream fields, .get on
\* the pedometer field, and the first and last accelerometer sample.
RequestDumpRaises(data) ==
    \/ data.k # "dict"
    \/ \E key \in {"accelerometer", "gyroscope", "magnetometer", "barometer",
                   "deviceMotion"} :
          ~HasLen(DictGet(data, key, JList(<<>>)))
    \/ DictGet(data, "pedometer", JDict(<<>>)).k # "dict"
    \/ LET acc == DictGet(data, "accelerometer", JNull)
       IN Truthy(acc) /\ acc.k = "dict"

\* data.get(key, []) as the list analyze receives: a falsy string or dict
\* behaves there as the empty list
AsList(v) == IF v.k = "list" THEN v.items ELSE <<>>

\* _convert_to_arrays and _calculate_magnitude raise on an element that is
\* no dict (d.get) or whose x, y or z is no number (data['x']**2).
ConversionRaises(sensor_data) ==
    \E i \in 1..Len(sensor_data) :
        \/ sensor_data[i].k # "dict"
        \/ \E key \in {"x", "y", "z"} :
              /\ key \in DOMAIN sensor_data[i].fields
              /\ sensor_data[i].fields[key].k # "num"

NotValidated == [valid |-> FALSE, errors |-> <<>>, run |-> FALSE]
Validated(v) == [valid |-> v.valid, errors |-> v.errors, run |-> TRUE]

ServerError(message, validation) ==
    [status |-> 500, success |-> FALSE, error |-> "Internal server error",
     message |-> message, validation |-> validation]

InvalidData(v) ==
    [status |-> 400, success |-> FALSE, error |-> "Invalid data",
     details |-> v.errors, validation |-> Validated(v)]

\* What analyze_gait answers before it calls the processor (lines 67-109),
\* or Proceed when it goes on to the call.  validation is a ghost field:
\* what validate_sensor_data returned at line 90, if it was reached.
Proceed(v) == [status |-> 0, validation |-> Validated(v)]

\* Faulty variant: the handler does not return on a failed validation
AnalyzeGaitChecksNoReturn(data) ==
    IF RequestDumpRaises(data)
    THEN ServerError("request dump", NotValidated)
    ELSE Proceed(validate_sensor_data(data))

AnalyzeGaitChecks(data) ==
    IF RequestDumpRaises(data)
    THEN ServerError("request dump", NotValidated)
    ELSE LET validation_result == validate_sensor_data(data)
         IN IF ~validation_result.valid
            THEN InvalidData(validation_result)
            ELSE Proceed(validation_result)

procVars == <<sampling_rate, history, frame, completed, calls>>

\* analyze_gait (lines 50-143)
AnalyzeGait(data) ==
    /\ UNCHANGED <<problem_detector, request>>
    /\ LET checked == AnalyzeGaitChecks(data)
           accel_data == AsList(DictGet(data, "accelerometer", JList(<<>>)))
           gyro_data == AsList(DictGet(data, "gyroscope", JList(<<>>)))
           user_id == DictGet(data, "user_id", JStr("anonymous")).str
       IN IF checked.status # 0
          THEN response' = checked /\ UNCHANGED procVars
          ELSE IF CallRaisesTypeError
          THEN /\ response' = ServerError("TypeError: unexpected keyword argument",
                                          checked.validation)
               /\ UNCHANGED procVars
          ELSE IF ConversionRaises(accel_data) \/ ConversionRaises(gyro_data)
          THEN /\ response' = ServerError("analysis", checked.validation)
               /\ UNCHANGED procVars
          ELSE /\ Analyze(accel_data, gyro_data, user_id)
               /\ response' = [status |-> 200, success |-> TRUE,
                               data |-> completed'[Len(completed')],
                               validation |-> checked.validation]

-----------------------------------------------------------------------------
(* app.py: POST /api/gait/detect-problems                                  *)

NotReady ==
    [status |-> 503, success |-> FALSE, error |-> "Problem detector not initialized"]

\* Faulty variant: no test for the missing detector: calling a method of None
\* raises, which the handler answers with 500
DetectProblemsResponseNoGuard(detector, data) ==
    IF data.k # "dict" \/ ~detector.loaded
    THEN [status |-> 500, success |-> FALSE, error |-> "Internal server error"]
    ELSE IF "metrics" \notin DOMAIN data.fields
    THEN [status |-> 400, success |-> FALSE, error |-> "Missing metrics in request"]
    ELSE [status |-> 200, success |-> TRUE,
          problems_detected |-> 0, problems |-> <<>>,
          summary |-> generate_summary(<<>>)]

\* Faulty variant: the summary is generated from the findings as detected,
\* before they are prioritized
DetectProblemsResponseSummaryFirst(detector, data) ==
    IF ~detector.loaded THEN NotReady
    ELSE IF data.k # "dict"
    THEN [status |-> 500, success |-> FALSE, error |-> "Internal server error"]
    ELSE IF "metrics" \notin DOMAIN data.fields
    THEN [status |-> 400, success |-> FALSE, error |-> "Missing metrics in request"]
    ELSE LET problems == detect_problems(detector.baselines, data.fields.metrics)
             prioritized == prioritize_problems(problems)
         IN [status |-> 200, success |-> TRUE,
             problems_detected |-> Len(prioritized),
             problems |-> prioritized,
             summary |-> generate_summary(problems)]

\* detect_problems (lines 200-285).  data is None (a JSON null body), or a
\* dict that may hold 'metrics', a dict of numbers.
DetectProblemsResponse(detector, data) ==
    IF ~detector.loaded THEN NotReady
    ELSE IF data.k # "dict"
    THEN [status |-> 500, success |-> FALSE, error |-> "Internal server error"]
    ELSE IF "metrics" \notin DOMAIN data.fields
    THEN [status |-> 400, success |-> FALSE, error |-> "Missing metrics in request"]
    ELSE LET problems == detect_problems(detector.baselines, data.fields.metrics)
             prioritized == prioritize_problems(problems)
         IN [status |-> 200, success |-> TRUE,
             problems_detected |-> Len(prioritized),
             problems |-> prioritized,
             summary |-> generate_summary(prioritized)]

DetectProblems(data) ==
    /\ response' = DetectProblemsResponse(problem_detector, data)
    /\ UNCHANGED <<problem_detector, request, procVars>>

-----------------------------------------------------------------------------
(* The requests.                                                           *)

JAbsent == [k |-> "absent"]

\* The JSON object holding the keys of f whose value is not JAbsent
Object(f) == JDict([key \in {q \in DOMAIN f : f[q] # JAbsent} |-> f[key]])

MissingZ == JDict([x |-> JNum(0), y |-> JNum(1)])
TextX == JDict([x |-> JStr("a"), y |-> JNum(1), z |-> JNum(1)])

\* A stream whose sixth element, past the 5 the validator looks at, is a
\* number instead of a sample
BadTail == [i \in 1..6 |-> IF i = 6 THEN JNum(7) ELSE SampleNoTime(0, Wave(i), 1)]

AccelValues ==
    {JAbsent, JNull, JNum(5), JStr(""), JDict([a |-> JNum(1)]), JList(<<>>),
     JList(Stream(1, 20)), JList(Stream(MaxStreamLen, 20)), JList(BadTail),
     JList(<<MissingZ, TextX>>), JList(<<JNum(7)>>)}
GyroValues ==
    {JAbsent, JNum(5), JList(<<>>), JList(Stream(2, 20)), JList(<<MissingZ>>)}

AnalyzePayloads ==
    {JNull, JDict(<<>>)} \cup
    {Object([accelerometer |-> a, gyroscope |-> g, magnetometer |-> m,
             barometer |-> JAbsent, deviceMotion |-> d, pedometer |-> p,
             user_id |-> u]) :
        a \in AccelValues, g \in GyroValues,
        m \in {JAbsent, JNum(5)},
        d \in {JAbsent, JStr("x")},
        p \in {JAbsent, JList(<<>>), JDict([steps |-> JNum(3)])},
        u \in {JAbsent, JStr("u2")}}

\* Values of a metric around the cut points lo and hi of its check
Around(lo, hi) == {lo - 1, lo, hi - 1, hi}

\* The cut points of a baseline-driven check: those of the loaded baseline,
\* or those of the research baselines when the detector has none for it
Cuts(detector, key, fallback) ==
    IF detector.loaded /\ key \in DOMAIN detector.baselines
    THEN Around(detector.baselines[key].p5, detector.baselines[key].p25)
    ELSE Around(ResearchBaselines[fallback].p5, ResearchBaselines[fallback].p25)

Absent == -1

\* The metrics dict holding the keys of f whose value is not Absent
Metrics(f) == [key \in {q \in DOMAIN f : f[q] # Absent} |-> f[key]]

\* Every combination of the four baseline-driven metrics, with the two
\* fixed-cut metrics absent or both severe; and every combination of the
\* two fixed-cut metrics, with each baseline-driven metric absent or severe.
MetricsInputs(detector) ==
    LET c_all == Cuts(detector, "cadence", "cadence")
        g_all == Cuts(detector, "gait_symmetry", "gait_symmetry")
        l_all == Cuts(detector, "stride_length_estimate", "stride_length_estimate")
        v_all == Cuts(detector, "velocity_estimate", "velocity_estimate")
        Low(S) == CHOOSE m \in S : \A q \in S : m <= q
    IN {Metrics([cadence |-> c, gait_symmetry |-> g, stride_length |-> l,
                 velocity |-> v, stability_score |-> sr, step_regularity |-> sr]) :
           c \in {Absent} \cup c_all, g \in {Absent} \cup g_all,
           l \in {Absent} \cup l_all, v \in {Absent} \cup v_all,
           sr \in {Absent, 49}}
       \cup
       {Metrics([cadence |-> c, gait_symmetry |-> g, stride_length |-> l,
                 velocity |-> v, stability_score |-> s, step_regularity |-> r]) :
           c \in {Absent, Low(c_all)}, g \in {Absent, Low(g_all)},
           l \in {Absent, Low(l_all)}, v \in {Absent, Low(v_all)},
           s \in {Absent} \cup Around(50, 65),
           r \in {Absent} \cup Around(50, 70)}

DetectPayloads(detector) ==
    {JNull, JDict(<<>>)} \cup
    {[k |-> "dict", fields |-> [metrics |-> m]] : m \in MetricsInputs(detector)}

-----------------------------------------------------------------------------------------------------------------------------------------------------
(* The application: module initialisation (app.py lines 24-34) and one     *)
(* request in flight, answered by its endpoint.                            *)

Requests(detector) ==
    {[endpoint |-> "analyze", data |-> data] : data \in AnalyzePayloads}
    \cup {[endpoint |-> "detect", data |-> data] : data \in DetectPayloads(detector)}

Init ==
    /\ \E file \in BaselineFiles : problem_detector = GaitProblemDetector(file)
    /\ sampling_rate = DEFAULT_SAMPLING_RATE * 1000
    /\ history = <<>>
    /\ completed = <<>>
    /\ frame = [t \in Threads |-> IdleFrame]
    /\ calls = 0
    /\ request \in Requests(problem_detector)
    /\ response = NoResponse

Next ==
    \/ /\ request.endpoint = "analyze"
       /\ response = NoResponse
       /\ AnalyzeGait(request.data)
    \/ /\ request.endpoint = "detect"
       /\ response = NoResponse
       /\ DetectProblems(request.data)

Spec == Init /\ [][Next]_vars

-----------------------------------------------------------------------------
(* Claims about the GaitProcessor's shared state.                          *)

\* The last n elements of s (all of s when it has fewer).
Recent(s, n) == SubSeq(s, Len(s) - Min2(Len(s), n) + 1, Len(s))

\* The rate a call is entitled to: its own estimate, or the default.
OwnRate(f) ==
    IF f.actual_sampling_rate > 0 THEN f.actual_sampling_rate
    ELSE DEFAULT_SAMPLING_RATE * 1000

\* C4: in a sequence of analyze calls, a call whose sampling-rate estimate
\* is 0 and whose band-pass filter is reached normalises the filter against
\* the default of 50 Hz, whatever earlier calls estimated.
C4_ZeroEstimateUsesDefault ==
    \A t \in Threads :
        (/\ frame[t].session_id # 0
         /\ frame[t].pc = "idle"
         /\ frame[t].actual_sampling_rate = 0
         /\ frame[t].filter_rate # NoRate)
        => frame[t].filter_rate = DEFAULT_SAMPLING_RATE * 1000

\* C5: with two analyze calls interleaved on the shared processor, the rate
\* a call's band-pass filter uses is the one of its own accelerometer stream
\* (or the default), never the one the other call wrote.
C5_FilterUsesOwnRate ==
    \A t \in Threads :
        (frame[t].session_id # 0 /\ frame[t].filter_rate # NoRate)
        => frame[t].filter_rate = OwnRate(frame[t])

\* C6: after any sequence of completed analyze calls the history holds at
\* most 100 records, exactly the most recent min(n, 100) results in
\* completion order.
C6_HistoryIsRecentFifo ==
    /\ Len(history) <= HISTORY_LIMIT
    /\ history = Recent(completed, HISTORY_LIMIT)

\* C6 witness: more than 100 calls have completed and the oldest records
\* were evicted.
C6_Witness ==
    /\ Len(completed) > HISTORY_LIMIT + 1
    /\ Len(history) = HISTORY_LIMIT
    /\ history[1] = completed[Len(completed) - HISTORY_LIMIT + 1]

\* C7: once both concurrent calls have returned, the history holds every
\* record among the 100 most recently completed and at most 100 records.
C7_NoRecordLost ==
    Running = {} =>
        /\ Len(history) <= HISTORY_LIMIT
        /\ \A i \in 1..Len(Recent(completed, HISTORY_LIMIT)) :
             \E j \in 1..Len(history) :
                history[j] = Recent(completed, HISTORY_LIMIT)[i]

-----------------------------------------------------------------------------
(* Claims about the endpoints.                                             *)

Answered(endpoint) == request.endpoint = endpoint /\ response # NoResponse

MetricKeys ==
    {"step_count", "cadence", "stride_length", "velocity", "gait_symmetry",
     "stability_score", "step_regularity", "vertical_oscillation"}

\* C1: a payload that passes validate_sensor_data is answered with success
\* and a complete record (the eight metrics, gait_phases, analysis_duration
\* and data_quality), never with the 500 outcome.
C1_ValidatedPayloadSucceeds ==
    (Answered("analyze") /\ response.validation.run /\ response.validation.valid)
    => /\ response.status = 200
       /\ response.success
       /\ DOMAIN response.data.metrics = MetricKeys
       /\ {"gait_phases", "analysis_duration", "data_quality"}
             \subseteq DOMAIN response.data

\* C2: when validate_sensor_data reports valid = false the endpoint answers
\* 400 with exactly the validator's error list, analyze is not invoked and
\* the processor's history and sampling_rate are as before the request.
C2_InvalidIsRejected ==
    (Answered("analyze") /\ response.validation.run /\ ~response.validation.valid)
    => /\ response.status = 400
       /\ response.details = validate_sensor_data(request.data).errors
       /\ Len(response.details) > 0
       /\ calls = 0
       /\ \A t \in Threads : frame[t] = IdleFrame
       /\ history = <<>>
       /\ sampling_rate = DEFAULT_SAMPLING_RATE * 1000

\* C2 witness: a request rejected with two violations
C2_Witness ==
    /\ Answered("analyze")
    /\ response.status = 400
    /\ Len(response.details) = 2
    /\ ~response.validation.valid

\* C3: a stream key present in the payload whose value is not a list, or is
\* an empty list, makes validation fail, whatever the other stream is.
C3_PresentStreamMustBeNonEmptyList ==
    (Answered("analyze") /\ response.validation.run)
    => \A key \in {"accelerometer", "gyroscope"} :
          (/\ key \in DOMAIN request.data.fields
           /\ \/ request.data.fields[key].k # "list"
              \/ Len(request.data.fields[key].items) = 0)
          => ~response.validation.valid

\* C8: without a baseline file the detector is unavailable: every
\* detect-problems request is answered 503 with no detection result, and
\* analyze requests go through validation and are answered as usual.
C8_NoBaselinesMeansNotReady ==
    ~problem_detector.loaded =>
       /\ Answered("detect") =>
            /\ response.status = 503
            /\ ~response.success
            /\ DOMAIN response \cap {"problems", "summary", "problems_detected"} = {}
       /\ Answered("analyze") =>
            /\ response.status \in {200, 400, 500}
            /\ response.validation.run = ~RequestDumpRaises(request.data)

\* C8 witness: a well-formed detect-problems request answered 503
C8_Witness ==
    /\ ~problem_detector.loaded
    /\ Answered("detect")
    /\ request.data.k = "dict"
    /\ "metrics" \in DOMAIN request.data.fields
    /\ "cadence" \in DOMAIN request.data.fields.metrics
    /\ response.status = 503

\* The findings of one problem type in the response
Found(problem) ==
    {i \in 1..Len(response.problems) : response.problems[i].problem = problem}

Classified(problem, severity) ==
    /\ Cardinality(Found(problem)) = 1
    /\ \A i \in Found(problem) : response.problems[i].severity = severity

\* metric, the baseline key its check looks up, the problem it reports
BaselineChecks ==
    {<<"cadence", "cadence", "slow_cadence">>,
     <<"gait_symmetry", "gait_symmetry", "asymmetric_gait">>,
     <<"stride_length", "stride_length_estimate", "short_stride">>,
     <<"velocity", "velocity_estimate", "slow_velocity">>}

DetectionAnswered ==
    /\ Answered("detect")
    /\ response.status = 200

\* C9: for cadence, gait_symmetry, stride_length and velocity with a loaded
\* baseline: value < p5 gives exactly one severe finding, p5 <= value < p25
\* exactly one moderate finding, value >= p25 none; value = p5 is moderate.
C9_PercentileBands ==
    DetectionAnswered =>
      \A c \in BaselineChecks :
        (c[1] \in DOMAIN request.data.fields.metrics
         /\ c[2] \in DOMAIN problem_detector.baselines)
        => LET value == request.data.fields.metrics[c[1]]
               baseline == problem_detector.baselines[c[2]]
           IN /\ value < baseline.p5 => Classified(c[3], "severe")
              /\ (baseline.p5 <= value /\ value < baseline.p25)
                    => Classified(c[3], "moderate")
              /\ value >= baseline.p25 => Found(c[3]) = {}

\* C9 witness: a cadence exactly at p5 reported as moderate
C9_Witness ==
    /\ DetectionAnswered
    /\ "cadence" \in DOMAIN request.data.fields.metrics
    /\ "cadence" \in DOMAIN problem_detector.baselines
    /\ request.data.fields.metrics["cadence"] = problem_detector.baselines["cadence"].p5
    /\ Classified("slow_cadence", "moderate")

\* C10: stability_score and step_regularity are classified by fixed cut
\* points whatever baselines are loaded: stability < 0.5 severe, < 0.65
\* moderate; regularity < 0.5 severe, < 0.7 moderate, whenever present.
C10_FixedCutPoints ==
    DetectionAnswered =>
      LET m == request.data.fields.metrics IN
      /\ "stability_score" \in DOMAIN m =>
            /\ m["stability_score"] < 50 => Classified("poor_stability", "severe")
            /\ (50 <= m["stability_score"] /\ m["stability_score"] < 65)
                  => Classified("poor_stability", "moderate")
      /\ "step_regularity" \in DOMAIN m =>
            /\ m["step_regularity"] < 50 => Classified("irregular_steps", "severe")
            /\ (50 <= m["step_regularity"] /\ m["step_regularity"] < 70)
                  => Classified("irregular_steps", "moderate")

-----------------------------------------------------------------------------
(* Claims about the findings and their summary.                            *)

RecordFields ==
    {"problem", "severity", "category", "current_value", "normal_range",
     "percentile", "description", "impact", "clinical_significance",
     "recommendations"}

\* C11: every finding of a detection, whatever its problem type, carries all
\* the fields of the record shape, percentile included, and its severity is
\* severe or moderate.
C11_FindingsCarryEveryField ==
    DetectionAnswered =>
      \A i \in 1..Len(response.problems) :
         /\ DOMAIN response.problems[i] = RecordFields
         /\ response.problems[i].severity \in {"severe", "moderate"}

-----------------------------------------------------------------------------
(* Direct calls of the detector's and the processor's functions, as        *)
(* test_physionet_baselines.py and the modules' __main__ blocks make them: *)
(* request holds the function called and its argument, response what it    *)
(* returned.                                                               *)

MaxFindings == 3

Call(function, argument) == [endpoint |-> function, data |-> argument]
Returned(value) == [status |-> 200, value |-> value]

\* One finding of each problem type and severity, built as its check
\* builds it
FindingOf(problem, severity) ==
    CASE problem = "slow_cadence" ->
           BaselineFinding(problem, severity, "Speed & Rhythm", 8500, 9800, 11200, 2)
      [] problem = "slow_velocity" ->
           BaselineFinding(problem, severity, "Speed & Rhythm", 90, 115, 145, 2)
      [] problem = "asymmetric_gait" ->
           BaselineFinding(problem, severity, "Balance & Symmetry", 80, 92, 98, 1)
      [] problem = "short_stride" ->
           BaselineFinding(problem, severity, "Gait Pattern", 100, 120, 140, 2)
      [] problem = "poor_stability" ->
           EmpiricalFinding(problem, severity, "Balance & Symmetry", 45)
      [] OTHER ->
           EmpiricalFinding(problem, severity, "Gait Pattern", 45)

Findings ==
    {FindingOf(problem, severity) :
        problem \in {"slow_cadence", "slow_velocity", "asymmetric_gait",
                     "short_stride", "poor_stability", "irregular_steps"},
        severity \in {"severe", "moderate"}}

FindingLists == UNION {[1..n -> Findings] : n \in 0..MaxFindings}

Raised(error) == [status |-> 500, error |-> error]

LongStreamLen == 33

\* The streams of a validated payload: each absent (data.get gives []) or
\* a list of samples, not both absent
\* Streams whose x, y, z are 0 in every sample
ZeroStream(n, interval_ms) == [i \in 1..n |-> Sample(0, 0, 0, (i - 1) * interval_ms)]
ZeroStreamNoTime(n) == [i \in 1..n |-> SampleNoTime(0, 0, 0)]
ZeroStreams ==
    {ZeroStream(n, interval_ms) : n \in {1, 2, MaxStreamLen, LongStreamLen},
                                  interval_ms \in {0, 20, 1000}}
    \cup {ZeroStreamNoTime(n) : n \in {1, MaxStreamLen, LongStreamLen}}

RoundTripInputs ==
    ( {[accelerometer |-> a, gyroscope |-> g] :
          a \in {<<>>, Stream(LongStreamLen, 20)} \cup AccelStreams \cup ZeroStreams,
          g \in {<<>>, GyroStream}}
      \cup {[accelerometer |-> ZeroStreamNoTime(n), gyroscope |-> ZeroStreamNoTime(m)] :
               n \in {0, 49, 50, 99, 100, 199, 200},
               m \in {0, 49, 50, 99, 100, 199, 200}} )
    \ {[accelerometer |-> <<>>, gyroscope |-> <<>>]}

\* processor.analyze(...), the first half of the round trip
CallAnalyze ==
    /\ request.endpoint = "round_trip"
    /\ calls = 0
    /\ Analyze(request.data.accelerometer, request.data.gyroscope, "u1")
    /\ UNCHANGED <<problem_detector, request, response>>

\* detect_problems, prioritize_problems and generate_summary on the metrics
\* of the record analyze returned (problem_detector.py lines 465-467)
RoundTripResponse(detector, metrics) ==
    IF DetectProblemsRaises(detector.baselines, metrics)
    THEN Raised("KeyError")
    ELSE LET problems == detect_problems(detector.baselines, metrics)
             prioritized == prioritize_problems(problems)
         IN Returned([metrics |-> metrics,
                      problems |-> problems,
                      prioritized |-> prioritized,
                      summary |-> generate_summary(prioritized)])

FeedDetector ==
    /\ request.endpoint = "round_trip"
    /\ calls = 1
    /\ response = NoResponse
    /\ response' = RoundTripResponse(problem_detector, completed[1].metrics)
    /\ problem_detector' =
          [problem_detector EXCEPT
              !.baselines = BaselinesAfterDetect(@, completed[1].metrics)]
    /\ UNCHANGED <<request, procVars>>

\* Metrics dicts for detect_problems: each mapped metric absent, far below
\* its normal range or above it; the unmapped step_count and
\* vertical_oscillation absent or present
DetectInputs ==
    {Metrics([cadence |-> c, gait_symmetry |-> g, stride_length |-> l,
              velocity |-> v, stability_score |-> s, step_regularity |-> r,
              step_count |-> n, vertical_oscillation |-> o]) :
        c \in {Absent, 100, 12000}, g \in {Absent, 10, 99},
        l \in {Absent, 10, 190}, v \in {Absent, 10, 190},
        s \in {Absent, 10, 90}, r \in {Absent, 10, 90},
        n \in {Absent, 7}, o \in {Absent, 3}}

\* detector.detect_problems(user_metrics)
CallDetect ==
    /\ request.endpoint = "detect_problems"
    /\ response = NoResponse
    /\ response' =
          IF DetectProblemsRaises(problem_detector.baselines, request.data)
          THEN Raised("KeyError")
          ELSE Returned(detect_problems(problem_detector.baselines, request.data))
    /\ problem_detector' =
          [problem_detector EXCEPT
              !.baselines = BaselinesAfterDetect(@, request.data)]
    /\ UNCHANGED <<request, procVars>>

MaxStepIndex == 15
MaxSteps == 5

\* The step lists (increasing sample indices) of up to MaxSteps steps
StepLists ==
    {SortedSeq(S) : S \in {T \in SUBSET (0..MaxStepIndex) : Cardinality(T) <= MaxSteps}}

\* processor._analyze_symmetry(accel_data, steps); accel_data is not read
CallSymmetry ==
    /\ request.endpoint = "_analyze_symmetry"
    /\ response = NoResponse
    /\ response' = Returned(_analyze_symmetry(request.data))
    /\ UNCHANGED <<problem_detector, request, procVars>>

\* processor._detect_gait_phases(accel_data, steps); accel_data is not read
CallPhases ==
    /\ request.endpoint = "_detect_gait_phases"
    /\ response = NoResponse
    /\ response' = Returned(_detect_gait_phases(request.data))
    /\ UNCHANGED <<problem_detector, request, procVars>>

\* get_user_history (gait_processor.py lines 135-138): the records of the
\* user, then the Python slice [-limit:], which starts at max(n - limit, 0)
\* for a positive limit, at 0 for limit 0 (-0 is 0) and at min(-limit, n)
\* for a negative one
get_user_history(self_history, user_id, limit) ==
    LET user_sessions == SelectSeq(self_history, LAMBDA h : h.user_id = user_id)
        n == Len(user_sessions)
        start == IF -limit < 0 THEN Max2(n - limit, 0) ELSE Min2(-limit, n)
    IN SubSeq(user_sessions, start + 1, n)

\* processor.get_user_history(user_id, limit), as the history endpoint
\* calls it (app.py lines 180-182)
CallHistory ==
    /\ request.endpoint = "get_user_history"
    /\ response = NoResponse
    /\ response' = Returned(get_user_history(history, request.data.user_id,
                                             request.data.limit))
    /\ UNCHANGED <<problem_detector, request, procVars>>

\* A stream whose samples carry a timestamp only where `timed` says so
PartlyTimed(n, interval_ms, timed) ==
    [i \in 1..n |-> IF i \in timed THEN Sample(0, Wave(i), 1, (i - 1) * interval_ms)
                    ELSE SampleNoTime(0, Wave(i), 1)]

TimingStreams ==
    {Stream(n, interval_ms) : n \in 0..MaxStreamLen, interval_ms \in {0, 10, 2000}}
    \cup {StreamNoTime(n) : n \in 0..MaxStreamLen}
    \cup {PartlyTimed(MaxStreamLen, 10, timed) :
             timed \in {{1}, {MaxStreamLen}, 1..5, 1..10, 2..MaxStreamLen}}

\* processor._calculate_duration(sensor_data), in ms, and
\* processor._calculate_sampling_rate(sensor_data), in mHz
CallTiming ==
    /\ request.endpoint = "timing"
    /\ response = NoResponse
    /\ response' = Returned([duration |-> _calculate_duration(request.data),
                             sampling_rate |-> _calculate_sampling_rate(request.data)])
    /\ UNCHANGED <<problem_detector, request, procVars>>

\* Magnitude signals, times 100: a resting level of 1.00 with a pulse of
\* height h every `period` samples; one with a high and a low pulse; the
\* long ones are long enough for filtfilt
StepSignals ==
    LET Pulse(n, period, h) ==
            [i \in 1..n |-> IF i % period = 3 THEN 100 + h ELSE 100]
        HighLow == [i \in 1..(2 * MaxStreamLen) |->
                       IF i = 3 THEN 120 ELSE IF i = 15 THEN 107 ELSE 100]
    IN {Pulse(n, period, h) :
           n \in {0, 1, 2, 5, MaxStreamLen, 2 * MaxStreamLen, LongStreamLen},
           period \in {4, MaxStreamLen}, h \in {0, 3, 7, 10, 30}}
       \cup {HighLow}

\* processor._detect_steps(magnitude), with the processor's sampling rate
CallDetectSteps ==
    /\ request.endpoint = "_detect_steps"
    /\ response = NoResponse
    /\ \E run \in DetectStepsRuns(request.data, sampling_rate) :
          response' = IF run.raised THEN Raised("ZeroDivisionError")
                      ELSE Returned([steps |-> run.steps,
                                     filter_calls |-> run.filter_calls,
                                     filtered |-> run.filtered,
                                     passes |-> run.passes])
    /\ UNCHANGED <<problem_detector, request, procVars>>

MaxZ == 14

\* Values up to MaxZ quarter standard deviations either side of the mean
PercentileInputs ==
    LET stores == {ResearchBaselines, PhysioNetBaselines}
        stats == UNION {{b[key] : key \in DOMAIN b} : b \in stores}
    IN {[value |-> b.mean + k * Max2(1, b.std \div 4), baseline |-> b] :
           b \in stats, k \in (-MaxZ)..MaxZ}

\* detector._calculate_percentile(value, baseline)
CallPercentile ==
    /\ request.endpoint = "_calculate_percentile"
    /\ response = NoResponse
    /\ response' = Returned(_calculate_percentile(request.data.value,
                                                  request.data.baseline))
    /\ UNCHANGED <<problem_detector, request, procVars>>

\* detector.prioritize_problems(problems)
CallPrioritize ==
    /\ request.endpoint = "prioritize_problems"
    /\ response = NoResponse
    /\ response' = Returned(prioritize_problems(request.data))
    /\ UNCHANGED <<problem_detector, request, procVars>>

\* detector.generate_summary(problems)
CallSummary ==
    /\ request.endpoint = "generate_summary"
    /\ response = NoResponse
    /\ response' = Returned(generate_summary(request.data))
    /\ UNCHANGED <<problem_detector, request, procVars>>

CallInit ==
    /\ completed = <<>>
    /\ frame = [t \in Threads |-> IdleFrame]
    /\ calls = 0
    /\ response = NoResponse
    /\ \/ /\ problem_detector = GaitProblemDetector(File(WrappedFile(ResearchBaselines)))
          /\ request \in
               {Call("prioritize_problems", l) : l \in FindingLists}
               \cup {Call("generate_summary", l) : l \in FindingLists}
       \/ /\ \E file \in BaselineFiles \ {MissingFile} :
                problem_detector = GaitProblemDetector(file)
          /\ request \in {Call("round_trip", d) : d \in RoundTripInputs}
       \/ /\ \E file \in BaselineFiles \ {MissingFile} :
                problem_detector = GaitProblemDetector(file)
          /\ request \in {Call("detect_problems", m) : m \in DetectInputs}
       \/ /\ problem_detector = NoDetector
          /\ request \in {Call("_analyze_symmetry", steps) : steps \in StepLists}
       \/ /\ problem_detector = NoDetector
          /\ request \in {Call("timing", stream) : stream \in TimingStreams}
       \/ /\ problem_detector = GaitProblemDetector(File(WrappedFile(ResearchBaselines)))
          /\ request \in {Call("_calculate_percentile", d) : d \in PercentileInputs}
       \/ /\ problem_detector = NoDetector
          /\ request \in {Call("_detect_steps", magnitude) : magnitude \in StepSignals}
       \/ /\ problem_detector = NoDetector
          /\ request \in {Call("_detect_gait_phases", steps) : steps \in StepLists}
       \/ /\ problem_detector = NoDetector
          /\ request \in {Call("get_user_history", [user_id |-> u, limit |-> l]) :
                             u \in Users \cup {"u3"}, l \in {-1, 0, 1, 2, 10}}
    /\ history \in
          IF request.endpoint = "get_user_history"
          THEN {Prefill(k) : k \in {0, 1, 5}}
          ELSE {<<>>}
    /\ sampling_rate \in
          IF request.endpoint = "_detect_steps"
          THEN {DEFAULT_SAMPLING_RATE * 1000, 500}
          ELSE {DEFAULT_SAMPLING_RATE * 1000}

CallNext ==
    \/ CallPrioritize
    \/ CallSummary
    \/ CallAnalyze
    \/ FeedDetector
    \/ CallDetect
    \/ CallSymmetry
    \/ CallTiming
    \/ CallPercentile
    \/ CallDetectSteps
    \/ CallPhases
    \/ CallHistory

SpecCall == CallInit /\ [][CallNext]_vars

Called(function) == request.endpoint = function /\ response # NoResponse

SortKey(p) == <<severity_order(p.severity), category_order(p.category)>>

KeyOrdered(a, b) ==
    \/ SortKey(a)[1] < SortKey(b)[1]
    \/ SortKey(a)[1] = SortKey(b)[1] /\ SortKey(a)[2] <= SortKey(b)[2]

\* C12: prioritize_problems returns the records of its input, each once and
\* unchanged, ordered by severity and then category, records of equal
\* severity and category in their input order; the input list is as it was.
C12_PrioritizeIsStableSort ==
    Called("prioritize_problems") =>
      LET input == request.data
          output == response.value
          n == Len(input)
      IN /\ Len(output) = n
         /\ \A i, j \in 1..n : i < j => KeyOrdered(output[i], output[j])
         /\ \E f \in [1..n -> 1..n] :
               /\ \A i, j \in 1..n : i # j => f[i] # f[j]
               /\ \A i \in 1..n : output[i] = input[f[i]]
               /\ \A i, j \in 1..n :
                     (i < j /\ SortKey(output[i]) = SortKey(output[j])) => f[i] < f[j]

\* C12 witness: the records come back in another order, two of them with
\* the same severity and category
C12_Witness ==
    /\ Called("prioritize_problems")
    /\ response.value # request.data
    /\ \E i, j \in 1..Len(response.value) :
          /\ i < j
          /\ SortKey(response.value[i]) = SortKey(response.value[j])
          /\ response.value[i] # response.value[j]

\* The number of records of l with the given severity
Severity(l, severity) ==
    Cardinality({i \in 1..Len(l) : l[i].severity = severity})

StatusOfTier ==
    [low |-> "normal", high |-> "needs_immediate_attention",
     moderate |-> "needs_attention", low_moderate |-> "needs_improvement"]

\* C13: risk_level follows from the counts alone: low (status normal)
\* exactly for the empty list; otherwise high exactly for 2 or more severe,
\* else moderate exactly for 1 severe or 3 or more moderate, else
\* low_moderate; overall_status is the one status of the tier.
C13_RiskLevelByCounts ==
    Called("generate_summary") =>
      LET l == request.data
          severe == Severity(l, "severe")
          moderate == Severity(l, "moderate")
          risk == response.value.risk_level
      IN /\ risk \in DOMAIN StatusOfTier
         /\ response.value.overall_status = StatusOfTier[risk]
         /\ risk = "low" <=> l = <<>>
         /\ l # <<>> =>
              /\ risk = "high" <=> severe >= 2
              /\ risk = "moderate" <=> (severe = 1 \/ (severe = 0 /\ moderate >= 3))
              /\ risk = "low_moderate" <=> (severe = 0 /\ moderate < 3)

\* C13 witness: three moderate findings and no severe one give the moderate
\* tier
C13_Witness ==
    /\ Called("generate_summary")
    /\ Severity(request.data, "severe") = 0
    /\ Severity(request.data, "moderate") = 3
    /\ response.value.risk_level = "moderate"
    /\ response.value.overall_status = "needs_attention"

\* C14: the summary of every finding list, the empty one included, holds
\* total_problems, severe_count and moderate_count, total_problems being the
\* length of the list and the sum of the two counts.
C14_SummaryHoldsCounts ==
    Called("generate_summary") =>
      /\ {"total_problems", "severe_count", "moderate_count"}
            \subseteq DOMAIN response.value
      /\ response.value.total_problems = Len(request.data)
      /\ response.value.severe_count + response.value.moderate_count
            = response.value.total_problems

\* C15: the metrics record analyze produced, fed to detect_problems, then
\* prioritize_problems, then generate_summary, never raises, for every
\* loaded baseline store and whichever streams were supplied.
C15_RoundTripNeverRaises ==
    (Called("round_trip") /\ problem_detector.loaded)
    => /\ response.status = 200
       /\ response.value.metrics = completed[1].metrics
       /\ {"overall_status", "risk_level"} \subseteq DOMAIN response.value.summary
       /\ Len(response.value.prioritized) = Len(response.value.problems)

\* C15 witness: the round trip of a gyroscope-only payload under the
\* PhysioNet baselines returned findings and their summary
C15_Witness ==
    /\ Called("round_trip")
    /\ request.data.accelerometer = <<>>
    /\ "stride_variability" \notin DOMAIN problem_detector.baselines
    /\ response.status = 200
    /\ Len(response.value.prioritized) > 0
    /\ DOMAIN completed[1].metrics = MetricKeys

\* The metric each problem type reports on
ProblemMetric ==
    [slow_cadence |-> "cadence", asymmetric_gait |-> "gait_symmetry",
     short_stride |-> "stride_length", slow_velocity |-> "velocity",
     poor_stability |-> "stability_score", irregular_steps |-> "step_regularity"]

MappedMetrics == {ProblemMetric[p] : p \in DOMAIN ProblemMetric}

\* C16: detect_problems examines only the metrics that are present and
\* mapped: no error for absent or unmapped keys, every finding is about a
\* present mapped metric, at most one finding per metric, the unmapped keys
\* change nothing, and there are at most as many findings as mapped metrics
\* present (at most 6).
C16_OnlyPresentMappedMetrics ==
    Called("detect_problems") =>
      /\ response.status = 200
      /\ LET user_metrics == request.data
             found == response.value
             present == MappedMetrics \cap DOMAIN user_metrics
             mapped_only == [m \in present |-> user_metrics[m]]
         IN /\ \A i \in 1..Len(found) :
                  /\ found[i].problem \in DOMAIN ProblemMetric
                  /\ ProblemMetric[found[i].problem] \in present
            /\ \A i, j \in 1..Len(found) :
                  found[i].problem = found[j].problem => i = j
            /\ Len(found) <= Cardinality(present)
            /\ Cardinality(present) <= 6
            /\ found = detect_problems(problem_detector.baselines, mapped_only)

\* C16 witness: a dict holding only the unmapped keys and low values of the
\* two fixed-cut metrics gives exactly the two findings
C16_Witness ==
    /\ Called("detect_problems")
    /\ DOMAIN request.data =
          {"step_count", "vertical_oscillation", "stability_score", "step_regularity"}
    /\ "stride_variability" \in DOMAIN problem_detector.baselines
    /\ response.status = 200
    /\ Len(response.value) = 2

-----------------------------------------------------------------------------
(* Claims about the processor's metrics (values times 100).                *)

\* C17: gait symmetry is exactly 0.5 whenever fewer than 4 steps were
\* detected, and lies in [0, 1] for every step list.
C17_SymmetryRangeAndDefault ==
    Called("_analyze_symmetry") =>
      /\ response.value \in 0..100
      /\ Len(request.data) < 4 => response.value = 50

\* C17 witness: three unevenly spaced steps scored 0.5
C17_Witness ==
    /\ Called("_analyze_symmetry")
    /\ Len(request.data) = 3
    /\ request.data[2] - request.data[1] # request.data[3] - request.data[2]
    /\ response.value = 50

AllZero(stream) ==
    /\ Len(stream) > 0
    /\ \A i \in 1..Len(stream) :
          /\ stream[i].fields.x = JNum(0)
          /\ stream[i].fields.y = JNum(0)
          /\ stream[i].fields.z = JNum(0)

Analyzed == request.endpoint = "round_trip" /\ calls = 1

\* C18: for an accelerometer stream whose x, y, z are all 0 the magnitude is
\* 0 throughout and the analysis gives step_count 0, cadence 0,
\* stride_length 0, velocity 0 and no gait phases.
C18_AllZeroStream ==
    (Analyzed /\ AllZero(request.data.accelerometer)) =>
      LET magnitude ==
              _calculate_magnitude(_convert_to_arrays(request.data.accelerometer))
          result == completed[1]
      IN /\ \A i \in 1..Len(magnitude) : magnitude[i] = 0
         /\ Len(magnitude) = Len(request.data.accelerometer)
         /\ result.metrics.step_count = 0
         /\ result.metrics.cadence = 0
         /\ result.metrics.stride_length = 0
         /\ result.metrics.velocity = 0
         /\ result.gait_phases = <<>>

\* C18 witness: an all-zero stream long enough for the band-pass filter,
\* with a positive duration, was analyzed
C18_Witness ==
    /\ Analyzed
    /\ AllZero(request.data.accelerometer)
    /\ Len(request.data.accelerometer) > 27
    /\ frame[1].filter_rate = 50000
    /\ completed[1].analysis_duration > 0
    /\ completed[1].metrics.step_count = 0

\* The timestamp of sample i (1-based) with the positional index as default
DefaultedTime(stream, i) == NumGet(stream[i], "timestamp", i - 1)

\* C19: a sample without a timestamp counts as having its positional index
\* as timestamp: the duration is last - first (ms) of the timestamps so
\* defaulted, 0 for fewer than 2 samples, and the sampling-rate estimate is
\* taken from the same defaulted timestamps of the first 10 samples.
C19_TimestampDefaultsToIndex ==
    Called("timing") =>
      LET stream == request.data
          n == Len(stream)
          first10 == [i \in 1..Min2(10, n) |-> DefaultedTime(stream, i)]
          span == first10[Len(first10)] - first10[1]
      IN /\ response.value.duration =
               IF n < 2 THEN 0
               ELSE DefaultedTime(stream, n) - DefaultedTime(stream, 1)
         /\ response.value.sampling_rate =
               IF n < 10 \/ span = 0 THEN 0
               ELSE (1000 * 1000 * (Len(first10) - 1)) \div span

\* C20: for a fixed baseline the percentile is an integer in 1..99, is 50
\* when the baseline's std is 0 and when the value is the mean, and does not
\* decrease when the value grows.
C20_PercentileClampedMonotone ==
    Called("_calculate_percentile") =>
      LET value == request.data.value
          baseline == request.data.baseline
      IN /\ response.value \in 1..99
         /\ baseline.std = 0 => response.value = 50
         /\ value = baseline.mean => response.value = 50
         /\ \A d \in PercentileInputs :
               (d.baseline = baseline /\ d.value <= value)
               => _calculate_percentile(d.value, baseline) <= response.value

\* C20 witness: a value far below the mean, whose cumulative probability is
\* under 1 percent, has percentile 1
C20_Witness ==
    /\ Called("_calculate_percentile")
    /\ request.data.baseline.std > 0
    /\ 2 * (request.data.baseline.mean - request.data.value)
          > 5 * request.data.baseline.std
    /\ response.value = 1

-----------------------------------------------------------------------------
(* Claims about the baseline store.                                        *)

WrappedFiles == {file \in BaselineFiles \ {MissingFile} : "baselines" \in DOMAIN file.content}

\* C21: a detector loaded from a wrapped file {source, baselines} holds the
\* same metric-to-stats mapping as one loaded from a flat file of the inner
\* map, and its recorded provenance is the envelope's source value.
C21_WrappedFileNormalized ==
    \A file \in WrappedFiles :
       problem_detector = GaitProblemDetector(file)
       => /\ problem_detector.baselines
                = GaitProblemDetector(File(file.content.baselines)).baselines
          /\ problem_detector.source = file.content.source

\* C22: the loaded baselines are never modified after initialisation:
\* whatever is called (detect_problems, prioritize_problems,
\* generate_summary, analyze), every step leaves the detector and its
\* baseline mapping as they were.
C22_BaselinesReadOnly == [][problem_detector' = problem_detector]_vars

\* C22 witness: detect_problems returned findings that read the cadence
\* baseline
C22_Witness ==
    /\ Called("detect_problems")
    /\ problem_detector.loaded
    /\ "cadence" \in DOMAIN problem_detector.baselines
    /\ response.status = 200
    /\ \E i \in 1..Len(response.value) : response.value[i].problem = "slow_cadence"

\* C23: in the detection response primary_concerns is the descriptions of
\* the first min(3, n) findings of the returned (prioritized) list, in that
\* order; with a severe finding present the first concern describes a
\* severe one; problems_detected is the length of the returned list.
C23_PrimaryConcernsAreTopThree ==
    DetectionAnswered =>
      LET problems == response.problems
          n == Len(problems)
          concerns == response.summary.primary_concerns
      IN /\ response.problems_detected = n
         /\ Len(concerns) = Min2(3, n)
         /\ \A i \in 1..Len(concerns) : concerns[i] = problems[i].description
         /\ (\E i \in 1..n : problems[i].severity = "severe")
               => /\ problems[1].severity = "severe"
                  /\ concerns[1] = problems[1].description

\* C23 witness: more than three findings, the severe one detected after a
\* moderate one, and the first concern describes the severe one
C23_Witness ==
    /\ DetectionAnswered
    /\ Len(response.problems) > 3
    /\ Len(response.summary.primary_concerns) = 3
    /\ response.problems[1].severity = "severe"
    /\ response.problems[1].problem # "slow_cadence"
    /\ \E i \in 2..Len(response.problems) :
          /\ response.problems[i].problem = "slow_cadence"
          /\ response.problems[i].severity = "moderate"

\* C24: with the baselines that PhysioNetProcessor.generate_baselines
\* writes, metrics whose cadence, velocity, stride_length and gait_symmetry
\* are all below the written p5 of the metric of the same name give one
\* severe finding for each of the four.
C24_GeneratedBaselinesCoverFourMetrics ==
    ( /\ DetectionAnswered
      /\ problem_detector.loaded
      /\ problem_detector.baselines = PhysioNetBaselines
      /\ \A c \in BaselineChecks :
            /\ Has(request.data.fields.metrics, c[1])
            /\ request.data.fields.metrics[c[1]] < PhysioNetBaselines[c[1]].p5 )
    => \A c \in BaselineChecks : Classified(c[3], "severe")

\* The timestamp _calculate_sampling_rate reads for sample i: 0 when absent
ReadTime(stream, i) == NumGet(stream[i], "timestamp", 0)

\* The sum of the nine intervals between the first ten timestamps
NineIntervals(stream) ==
    SumSeq([i \in 1..9 |-> ReadTime(stream, i + 1) - ReadTime(stream, i)])

\* C25: the sampling-rate estimate is 0 for fewer than 10 samples or when
\* the mean of the nine intervals between the first ten timestamps is zero,
\* and 1000 / mean otherwise; it is a function of the first ten samples
\* only, and every division it performs has a nonzero divisor.
C25_SamplingRateFromFirstTen ==
    Called("timing") =>
      LET stream == request.data
          rate == response.value.sampling_rate
      IN /\ response.status = 200
         /\ Len(stream) < 10 => rate = 0
         /\ Len(stream) >= 10 =>
              /\ NineIntervals(stream) = 0 => rate = 0
              /\ NineIntervals(stream) # 0 =>
                    rate = (9 * 1000 * 1000) \div NineIntervals(stream)
              /\ \A other \in TimingStreams :
                    (Len(other) >= 10 /\ SubSeq(other, 1, 10) = SubSeq(stream, 1, 10))
                       => _calculate_sampling_rate(other) = rate

\* C25 witness: more than ten samples, the first ten 10 ms apart and the
\* later ones without a timestamp, estimated at 100 Hz
C25_Witness ==
    /\ Called("timing")
    /\ Len(request.data) > 10
    /\ "timestamp" \notin DOMAIN request.data[Len(request.data)]
    /\ NineIntervals(request.data) = 90
    /\ response.value.sampling_rate = 100 * 1000

\* Consecutive indices strictly increasing and at least `distance` apart
Spaced(steps, distance) ==
    \A i \in 1..(Len(steps) - 1) :
        steps[i] < steps[i + 1] /\ steps[i + 1] - steps[i] >= distance

\* C26: step detection returns the empty list at once, without filtering,
\* for fewer than 2 samples; otherwise it returns the peaks found at
\* prominence 0.1 when there is at least one, and only when there is none
\* searches once more at 0.05 and returns what that finds; the returned
\* indices are strictly increasing, consecutive ones at least 10 apart.
C26_StepDetectionPasses ==
    (Called("_detect_steps") /\ response.status = 200) =>
      LET magnitude == request.data
          out == response.value
          first == find_peaks(magnitude, 10, 10)
      IN /\ Len(magnitude) < 2 =>
              out.steps = <<>> /\ out.filter_calls = 0 /\ out.passes = 0
         /\ Len(magnitude) >= 2 =>
              /\ out.filter_calls = 1
              /\ out.passes \in {1, 2}
              /\ out.passes = 1 => out.steps # <<>>
              /\ ~out.filtered =>
                    IF first # <<>>
                    THEN out.passes = 1 /\ out.steps = first
                    ELSE out.passes = 2 /\ out.steps = find_peaks(magnitude, 10, 5)
         /\ Spaced(out.steps, 10)
         /\ \A i \in 1..Len(out.steps) : out.steps[i] \in 0..(Len(magnitude) - 1)

\* C26 witness: nothing at prominence 0.1, two steps found by the second
\* search at 0.05
C26_Witness ==
    /\ Called("_detect_steps")
    /\ response.status = 200
    /\ ~response.value.filtered
    /\ find_peaks(request.data, 10, 10) = <<>>
    /\ response.value.passes = 2
    /\ Len(response.value.steps) = 2

\* C27: the band-pass filter never raises: with fewer than 10 samples, or
\* when the filter design or its application fails, it hands back its input
\* unchanged and step detection goes on with that input.
C27_BandpassNeverRaises ==
    Called("_detect_steps") =>
      /\ response.status = 200
      /\ (Len(request.data) < 10
          \/ ~FilterApplies(Len(request.data), sampling_rate)) =>
            /\ ~response.value.filtered
            /\ response.value.steps \in
                  {find_peaks(request.data, 10, 10), find_peaks(request.data, 10, 5)}

\* C27 witness: a signal long enough for filtfilt at a sampling rate for
\* which butter rejects the band; steps are found on the unfiltered signal
C27_Witness ==
    /\ Called("_detect_steps")
    /\ Len(request.data) > 27
    /\ ~FilterApplies(Len(request.data), sampling_rate)
    /\ response.status = 200
    /\ ~response.value.filtered
    /\ response.value.steps # <<>>

\* C28: for k step indices the phase list has max(k - 1, 0) records, in
\* order; record n spans step n to step n + 1, its duration is end_index
\* minus start_index, its start_index is the end_index of the record before
\* it, and the labels alternate from "stance": odd step_number stance, even
\* step_number swing.
C28_PhasesPartitionSteps ==
    Called("_detect_gait_phases") =>
      LET steps == request.data
          phases == response.value
      IN /\ response.status = 200
         /\ Len(phases) = Max2(Len(steps) - 1, 0)
         /\ \A n \in 1..Len(phases) :
               /\ phases[n].step_number = n
               /\ phases[n].start_index = steps[n]
               /\ phases[n].end_index = steps[n + 1]
               /\ phases[n].duration = phases[n].end_index - phases[n].start_index
               /\ phases[n].phase = IF n % 2 = 1 THEN "stance" ELSE "swing"
               /\ n > 1 => phases[n].start_index = phases[n - 1].end_index

\* C28 witness: five steps give four records, the last one a swing phase
C28_Witness ==
    /\ Called("_detect_gait_phases")
    /\ Len(request.data) = 5
    /\ Len(response.value) = 4
    /\ response.value[1].phase = "stance"
    /\ response.value[4].phase = "swing"
    /\ response.value[4].end_index = request.data[5]

\* The grade the smaller sample count m stands for
GradeOf(m) ==
    IF m < 50 THEN "poor"
    ELSE IF m < 100 THEN "fair"
    ELSE IF m < 200 THEN "good"
    ELSE "excellent"

\* C29: data_quality is the grade of m = min(len(accelerometer),
\* len(gyroscope)): poor below 50, fair from 50, good from 100, excellent
\* from 200; with one of the two streams missing it is poor; whatever the
\* grade, the record holds every metric.
C29_QualityFromSmallerStream ==
    Analyzed =>
      LET accelerometer == request.data.accelerometer
          gyroscope == request.data.gyroscope
      IN /\ completed[1].data_quality =
               GradeOf(Min2(Len(accelerometer), Len(gyroscope)))
         /\ (accelerometer = <<>> \/ gyroscope = <<>>)
               => completed[1].data_quality = "poor"
         /\ DOMAIN completed[1].metrics = MetricKeys

\* C29 witness: 200 accelerometer samples and 99 gyroscope samples, graded
\* fair, every metric present
C29_Witness ==
    /\ Analyzed
    /\ Len(request.data.accelerometer) = 200
    /\ Len(request.data.gyroscope) = 99
    /\ completed[1].data_quality = "fair"
    /\ DOMAIN completed[1].metrics = MetricKeys

\* C30: get_user_history(user_id, limit) returns only records of that
\* user, in the order they were recorded, the most recent ones and never
\* more than `limit` of them, for every integer limit including 0 (checked
\* here for the limits from 0 up), and it leaves the history as it was.
C30_HistoryAtMostLimit ==
    (Called("get_user_history") /\ request.data.limit >= 0) =>
      LET user_id == request.data.user_id
          limit == request.data.limit
          own == SelectSeq(history, LAMBDA h : h.user_id = user_id)
          out == response.value
      IN /\ \A i \in 1..Len(out) : out[i].user_id = user_id
         /\ Len(out) <= Len(own)
         /\ out = SubSeq(own, Len(own) - Len(out) + 1, Len(own))
         /\ Len(out) <= limit
         /\ history = Prefill(Len(history))

====
